---- MODULE Spec2Model ----
(***************************************************************************)
(* Model of the programs of Georgie Originals.                             *)
(*                                                                         *)
(* The image optimisation script (src/unnamed/part_000): createDirectories,*)
(* the directory filter, the per-file units processImage fanned out under  *)
(* Promise.all and the report printed by main (Spec); a second run of it   *)
(* over the same directory (RerunSpec); the geometry the resize options of *)
(* its two tiers ask the codec for (GeoSpec); one call of formatBytes      *)
(* (FmtSpec).                                                              *)
(*                                                                         *)
(* The Open Graph image script and the favicon script                      *)
(* (src/generate-og-image.js), run side by side (AssetSpec).               *)
(*                                                                         *)
(* The lightbox of the gallery page (src/js/lightbox.js): init, open, the  *)
(* click, keydown and touch listeners of attachEvents and the keydown      *)
(* listeners of trapFocus (src/unnamed/part_001) (LbSpec).                 *)
(*                                                                         *)
(* Each specification starts the program it is about and leaves the        *)
(* variables of the others at rest.                                        *)
(*                                                                         *)
(* File names are sequences of one-character strings, so that the filter   *)
(* /\.(jpe?g|png)$/i and startsWith('.') are computed on the characters.   *)
(* Each await of the source is one step of the model.                      *)
(***************************************************************************)
EXTENDS Integers, Sequences, FiniteSets, TLC

\* ------------------------------------------------------------------ bounds

\* Largest number of entries the input directory holds before the run.
MaxFiles == 2

\* Largest byte count fs.stat reports for a file.
MaxSize == 2

\* --------------------------------------------------------------- constants

thumbnailWidth == 600
fullSizeWidth == 1200
thumbnailQuality == 85
fullSizeQuality == 90

\* The three output directories, as entries of the input directory
\* (CONFIG.outputDirs lives under CONFIG.inputDir), in Object.values order.
originals == <<"o", "r", "i", "g", "i", "n", "a", "l", "s">>
thumbnails == <<"t", "h", "u", "m", "b", "s">>
optimized == <<"o", "p", "t", "i", "m", "i", "z", "e", "d">>
outputDirs == <<originals, thumbnails, optimized>>

\* -------------------------------------------------------------- file names

\* Entries the input directory may hold before the run, up to MaxFiles of
\* them at once: two images and a hidden file the filter has to drop.
FileNames ==
    { <<"a", ".", "j", "p", "g">>,
      <<"B", ".", "J", "P", "E", "G">>,
      <<".", "d", ".", "j", "p", "g">> }

\* Further names, each tried as the only entry of the input directory: a
\* visible and a hidden stem, followed by endings around the three accepted
\* extensions.
Stems == { <<"x">>, <<".", "x">> }
Endings ==
    { <<".", "j", "p", "g">>,
      <<".", "J", "p", "G">>,
      <<".", "j", "p", "e", "g">>,
      <<".", "J", "P", "E", "G">>,
      <<".", "p", "n", "g">>,
      <<".", "P", "n", "G">>,
      <<".", "j", "p", "e">>,
      <<".", "j", "p", "e", "e", "g">>,
      <<".", "p", "n", "g", "s">>,
      <<".", "g", "i", "f">>,
      <<"p", "n", "g">>,
      <<".", "j", "p", "g", ".", "b", "a", "k">>,
      <<".", "t", "x", "t", ".", "p", "n", "g">>,
      <<>> }
SingleNames == {stem \o ending : stem \in Stems, ending \in Endings}

AllNames == FileNames \cup SingleNames \cup {originals, thumbnails, optimized}

UpperChars == <<"A", "B", "C", "D", "E", "F", "G", "H", "I", "J", "K", "L", "M",
                "N", "O", "P", "Q", "R", "S", "T", "U", "V", "W", "X", "Y", "Z">>
LowerChars == <<"a", "b", "c", "d", "e", "f", "g", "h", "i", "j", "k", "l", "m",
                "n", "o", "p", "q", "r", "s", "t", "u", "v", "w", "x", "y", "z">>

\* Case folding of one character, as the i flag of the regular expression does.
FoldCase(c) ==
    IF \E k \in 1..26 : UpperChars[k] = c
    THEN LowerChars[CHOOSE k \in 1..26 : UpperChars[k] = c]
    ELSE c

\* (jpe?g|png)$ : the characters after the dot, up to the end of the name.
MatchesExtension(rest) ==
    LET r == [k \in 1..Len(rest) |-> FoldCase(rest[k])]
    IN  \/ /\ Len(r) \in {3, 4}
           /\ r[1] = "j"
           /\ r[2] = "p"
           /\ IF Len(r) = 3 THEN r[3] = "g" ELSE r[3] = "e" /\ r[4] = "g"
        \/ /\ Len(r) = 3
           /\ r[1] = "p" /\ r[2] = "n" /\ r[3] = "g"

\* /\.(jpe?g|png)$/i.test(file): some dot of the name is followed by one of
\* the extensions and then the end of the name.
RegexTest(file) ==
    \E s \in 1..Len(file) :
        /\ file[s] = "."
        /\ MatchesExtension(SubSeq(file, s + 1, Len(file)))

\* file.startsWith('.')
StartsWithDot(file) == Len(file) >= 1 /\ file[1] = "."

\* IsImageFile without the test for a leading dot.
IsImageFile_noHiddenTest(file) == RegexTest(file)

\* The predicate of files.filter(...) in main.
IsImageFile(file) == RegexTest(file) /\ ~StartsWithDot(file)

\* --------------------------------------------------------------- the disk

Tiers == {"originals", "thumbnails", "optimized"}
Dirs == {"input"} \cup Tiers

\* path.join(dir, filename)
PathJoin(dir, filename) == <<dir, filename>>

Absent == [kind |-> "absent"]

\* What a read of path finds on the disk.
ReadFile(d, path) == IF path \in DOMAIN d THEN d[path] ELSE Absent

\* The disk after bytes have been written to path.
WriteFile(d, path, bytes) ==
    [p \in DOMAIN d \cup {path} |-> IF p = path THEN bytes ELSE d[p]]

\* The bytes of the entry called n before the run: every entry has its own.
SourceBytes(n) == [kind |-> "bytes", of |-> n]

\* Encode without withoutEnlargement: the codec may scale a source up.
Encode_enlarge(input, width, quality) ==
    [kind |-> "jpeg", from |-> input, width |-> width, height |-> "auto",
     withoutEnlargement |-> FALSE, fit |-> "inside",
     quality |-> quality, progressive |-> TRUE]

\* What sharp(input).resize(width, null, {withoutEnlargement, fit}).jpeg(
\* {quality, progressive}).toFile(...) writes: the codec is a black box, the
\* file is identified by the source bytes and the parameters handed over.
Encode(input, width, quality) ==
    [kind |-> "jpeg", from |-> input, width |-> width, height |-> "auto",
     withoutEnlargement |-> TRUE, fit |-> "inside",
     quality |-> quality, progressive |-> TRUE]

\* The bytes of a directory entry before the run.
EntryBytes(n) ==
    IF n \in {originals, thumbnails, optimized}
    THEN [kind |-> "directory"]
    ELSE SourceBytes(n)

\* ------------------------------------------------------------------ state

VARIABLES
    mainpc,      \* where main is: "mkdir", "readdir", "await", "done", "fatal"
    dirIdx,      \* position of createDirectories in Object.values(outputDirs)
    dirEntries,  \* the input directory, in the order fs.readdir returns it
    disk,        \* path -> bytes
    imageFiles,  \* main's imageFiles, once the directory has been read
    units,       \* one record per call of processImage, by index in imageFiles
    errorLog,    \* file names of the console.error lines of processImage
    fatalLogged, \* main's catch has printed its console.error line
    report,      \* what main has printed below OPTIMIZATION REPORT
    exitCode,    \* the exit code of the process, -1 while it runs
    setupFailed, \* fs.mkdir or fs.readdir has thrown
    access,      \* every file system access of the units so far
    settleOrder  \* the units' indices, in the order their promises settled

\* The pixel size of a source image and of what each tier's pipeline makes
\* of it.
VARIABLES
    geoSource,   \* [width, height] of the image at inputPath
    geoOutput    \* tier -> [width, height] of the file written, or NoGeometry

geoVars == <<geoSource, geoOutput>>

\* The script run a second time over the directory the first run left.
VARIABLES
    run,         \* 1 during the first run of the script, 2 during the second
    firstRun     \* what the first run left behind, once the second has begun

rerunVars == <<run, firstRun>>

\* The favicon script and the Open Graph image script
\* (src/generate-og-image.js), each a process of its own.
VARIABLES
    favSource,   \* pixel size of CONFIG.sourceImage of the favicon script,
                 \* or NoGeometry when the file does not exist
    favpc,       \* where main is: "access", "icons", "ico", "manifest",
                 \* "done", "fatal"
    favIdx,      \* position of main's loop in Object.entries(CONFIG.sizes)
    favLog,      \* the console lines of the favicon script
    favExit,     \* its exit code, -1 while it runs
    ogSource,    \* as favSource, for the Open Graph script
    ogpc,        \* where generateOGImage is: "access", "metadata", "resize",
                 \* "stat", "done", "fatal"
    ogLog,       \* the console lines of the Open Graph script
    ogExit,      \* its exit code, -1 while it runs
    assetFiles   \* file name -> what was written, under ./public/images

assetVars == <<favSource, favpc, favIdx, favLog, favExit,
               ogSource, ogpc, ogLog, ogExit, assetFiles>>

\* One call of formatBytes.
VARIABLES
    fmtBytes,    \* the argument
    fmtText      \* what the call returned, or NoText before it has

fmtVars == <<fmtBytes, fmtText>>

\* The Lightbox object of src/js/lightbox.js and the part of the page it
\* writes.
VARIABLES
    paintings,      \* this.paintings.length
    currentIndex,   \* this.currentIndex, or NaN
    element,        \* TRUE once this.element holds the #lightbox node
    isOpen,         \* this.isOpen
    classActive,    \* the node carries the class 'active'
    ariaHidden,     \* its aria-hidden attribute, "none" while there is no node
    overflow,       \* document.body.style.overflow
    shown,          \* the counter under the image: <<>> or <<k, of>> for "k / of"
    focus,          \* document.activeElement: a button of the lightbox, or "page"
    listeners,      \* how many times attachEvents has registered its listeners
    trapListeners,  \* how many keydown listeners trapFocus has registered
    lastEvent,      \* the call or input event handled last
    before          \* the Lightbox as that call or event found it

lbVars == <<paintings, currentIndex, element, isOpen, classActive, ariaHidden,
            overflow, shown, focus, listeners, trapListeners, lastEvent,
            before>>

vars == <<mainpc, dirIdx, dirEntries, disk, imageFiles, units, errorLog,
          fatalLogged, report, exitCode, setupFailed, access, settleOrder,
          geoVars, rerunVars, assetVars, fmtVars, lbVars>>

Null == [kind |-> "null"]
NoReport == [kind |-> "none"]

RECURSIVE DistinctSeqs(_, _)
\* The sequences of at most n distinct elements of S.
DistinctSeqs(S, n) ==
    IF n = 0 THEN {<<>>}
    ELSE LET shorter == DistinctSeqs(S, n - 1)
         IN  shorter \cup
             {Append(q, x) : q \in {r \in shorter : Len(r) = n - 1},
                             x \in S}

Range(q) == {q[k] : k \in 1..Len(q)}

IsDistinct(q) == \A j, k \in 1..Len(q) : j # k => q[j] # q[k]

\* The script is not run: nothing of it exists.
ImageIdle ==
    /\ mainpc = "off"
    /\ dirIdx = 1
    /\ dirEntries = <<>>
    /\ disk = [p \in {} |-> Absent]
    /\ imageFiles = <<>>
    /\ units = <<>>
    /\ errorLog = <<>>
    /\ fatalLogged = FALSE
    /\ report = NoReport
    /\ exitCode = -1
    /\ setupFailed = FALSE
    /\ access = {}
    /\ settleOrder = <<>>

\* The two tiers whose files are made by a resize.
ResizeTiers == {"thumbnails", "optimized"}

NoGeometry == [kind |-> "none"]

\* No image is being measured.
GeoIdle ==
    /\ geoSource = NoGeometry
    /\ geoOutput = [t \in ResizeTiers |-> NoGeometry]

NoRun == [kind |-> "none"]

\* The script has not been run before.
RerunIdle ==
    /\ run = 1
    /\ firstRun = NoRun

\* Neither the favicon script nor the Open Graph script is run.
AssetIdle ==
    /\ favSource = NoGeometry
    /\ favpc = "off"
    /\ favIdx = 1
    /\ favLog = <<>>
    /\ favExit = -1
    /\ ogSource = NoGeometry
    /\ ogpc = "off"
    /\ ogLog = <<>>
    /\ ogExit = -1
    /\ assetFiles = [f \in {} |-> Absent]

NoText == [hundredths |-> -1, unit |-> "none"]

\* formatBytes is not being called.
FmtIdle ==
    /\ fmtBytes = 0
    /\ fmtText = NoText

NoEvent == [type |-> "none"]

\* const Lightbox = { paintings: [], currentIndex: 0, element: null,
\* isOpen: false, ... } on a page that has no #lightbox node yet.
LbIdle ==
    /\ paintings = 0
    /\ currentIndex = 0
    /\ element = FALSE
    /\ isOpen = FALSE
    /\ classActive = FALSE
    /\ ariaHidden = "none"
    /\ overflow = ""
    /\ shown = <<>>
    /\ focus = "page"
    /\ listeners = 0
    /\ trapListeners = 0
    /\ lastEvent = NoEvent
    /\ before = NoEvent

Init ==
    /\ GeoIdle
    /\ RerunIdle
    /\ AssetIdle
    /\ FmtIdle
    /\ LbIdle
    /\ mainpc = "mkdir"
    /\ dirIdx = 1
    /\ dirEntries \in {q \in DistinctSeqs(FileNames, MaxFiles) : IsDistinct(q)}
                      \cup {<<n>> : n \in SingleNames}
    /\ disk = [p \in {PathJoin("input", n) : n \in Range(dirEntries)} |->
                 EntryBytes(p[2])]
    /\ imageFiles = <<>>
    /\ units = <<>>
    /\ errorLog = <<>>
    /\ fatalLogged = FALSE
    /\ report = NoReport
    /\ exitCode = -1
    /\ setupFailed = FALSE
    /\ access = {}
    /\ settleOrder = <<>>

\* ------------------------------------------------------------------- main

\* catch (error) { console.error('Fatal error:', error); process.exit(1); }
MainCatch ==
    /\ mainpc' = "fatal"
    /\ fatalLogged' = TRUE
    /\ exitCode' = 1

\* MkdirOk creating nothing: the loop only moves on.
MkdirOk_nothing ==
    /\ mainpc = "mkdir"
    /\ IF dirIdx < Len(outputDirs)
       THEN dirIdx' = dirIdx + 1 /\ mainpc' = "mkdir"
       ELSE dirIdx' = dirIdx /\ mainpc' = "readdir"
    /\ UNCHANGED <<dirEntries, disk, imageFiles, units, errorLog, fatalLogged,
                   report, exitCode, setupFailed, access, settleOrder>>

\* await fs.mkdir(dir, { recursive: true }) succeeds: the directory exists
\* afterwards, whether or not it did before.
MkdirOk ==
    /\ mainpc = "mkdir"
    /\ LET dir == outputDirs[dirIdx]
       IN  /\ dirEntries' = IF dir \in Range(dirEntries) THEN dirEntries
                            ELSE Append(dirEntries, dir)
           /\ disk' = WriteFile(disk, PathJoin("input", dir), EntryBytes(dir))
    /\ IF dirIdx < Len(outputDirs)
       THEN dirIdx' = dirIdx + 1 /\ mainpc' = "mkdir"
       ELSE dirIdx' = dirIdx /\ mainpc' = "readdir"
    /\ UNCHANGED <<imageFiles, units, errorLog, fatalLogged, report, exitCode,
                   setupFailed, access, settleOrder>>

\* MkdirFails with the error of fs.mkdir swallowed inside createDirectories:
\* the loop goes on to the next directory.
MkdirFails_swallow ==
    /\ mainpc = "mkdir"
    /\ setupFailed' = TRUE
    /\ IF dirIdx < Len(outputDirs)
       THEN dirIdx' = dirIdx + 1 /\ mainpc' = "mkdir"
       ELSE dirIdx' = dirIdx /\ mainpc' = "readdir"
    /\ UNCHANGED <<dirEntries, disk, imageFiles, units, errorLog, fatalLogged,
                   report, exitCode, access, settleOrder>>

\* await fs.mkdir(...) throws: createDirectories rejects, main's catch runs.
MkdirFails ==
    /\ mainpc = "mkdir"
    /\ setupFailed' = TRUE
    /\ MainCatch
    /\ UNCHANGED <<dirIdx, dirEntries, disk, imageFiles, units, errorLog,
                   report, access, settleOrder>>

\* files.filter(file => /\.(jpe?g|png)$/i.test(file) && !file.startsWith('.'))
FilterImages(files) == SelectSeq(files, IsImageFile)

\* processImage(filename) up to its first await: the paths are computed and
\* getFileSize(inputPath) is pending.
NewUnit ==
    [pc |-> "statInput", originalSize |-> 0, thumbSize |-> 0,
     optimizedSize |-> 0, failedAt |-> "none", result |-> Null]

\* await fs.readdir(CONFIG.inputDir) returns; the filter runs and
\* imageFiles.map(file => processImage(file)) starts one unit per image.
ReadDirOk ==
    /\ mainpc = "readdir"
    /\ imageFiles' = FilterImages(dirEntries)
    /\ units' = [k \in 1..Len(FilterImages(dirEntries)) |-> NewUnit]
    /\ mainpc' = "await"
    /\ UNCHANGED <<dirIdx, dirEntries, disk, errorLog, fatalLogged, report,
                   exitCode, setupFailed, access, settleOrder>>

\* await fs.readdir(CONFIG.inputDir) throws.
ReadDirFails ==
    /\ mainpc = "readdir"
    /\ setupFailed' = TRUE
    /\ MainCatch
    /\ UNCHANGED <<dirIdx, dirEntries, disk, imageFiles, units, errorLog,
                   report, access, settleOrder>>

\* ----------------------------------------------------------- processImage

\* thumbPath with one fixed file name for every thumbnail.
thumbPath_fixedName(filename) ==
    PathJoin("thumbnails", <<"t", "h", "u", "m", "b", ".", "j", "p", "g">>)

\* thumbPath with the thumbnail written next to its source.
thumbPath_besideSource(filename) ==
    PathJoin("input", <<"t", "_">> \o filename)

inputPath(filename) == PathJoin("input", filename)
originalPath(filename) == PathJoin("originals", filename)
thumbPath(filename) == PathJoin("thumbnails", filename)
optimizedPath(filename) == PathJoin("optimized", filename)

\* ToFixed1 cutting the digits after the first decimal instead of rounding.
ToFixed1_truncate(num, den) ==
    LET mag == IF num < 0 THEN -num ELSE num
    IN  [kind |-> "number", sign |-> IF num < 0 THEN "-" ELSE "",
         tenths |-> (10 * mag) \div den]

\* Number.prototype.toFixed(1) of the fraction num / den, den > 0: the sign,
\* then the magnitude rounded to the nearest tenth, the larger one on a tie.
ToFixed1(num, den) ==
    LET mag == IF num < 0 THEN -num ELSE num
        tenths == (20 * mag + den) \div (2 * den)
    IN  [kind |-> "number", sign |-> IF num < 0 THEN "-" ELSE "",
         tenths |-> tenths]

\* ((1 - size / originalSize) * 100).toFixed(1). Dividing by 0 gives NaN
\* for 0 / 0 and Infinity otherwise, which toFixed prints as they are.
Savings(size, originalSize) ==
    IF originalSize = 0
    THEN IF size = 0 THEN [kind |-> "NaN"] ELSE [kind |-> "-Infinity"]
    ELSE ToFixed1(100 * (originalSize - size), originalSize)

\* The object processImage returns.
Result(filename, originalSize, thumbSize, optimizedSize) ==
    [kind |-> "result",
     filename |-> filename,
     original |-> originalSize,
     thumbnail |-> thumbSize,
     optimized |-> optimizedSize,
     thumbSavings |-> Savings(thumbSize, originalSize),
     optimizedSavings |-> Savings(optimizedSize, originalSize)]

Accessed(i, op, path) == [unit |-> i, op |-> op, path |-> path]

AtStep(i, step) ==
    /\ mainpc = "await"
    /\ i \in 1..Len(units)
    /\ units[i].pc = step

\* An awaited call of the unit throws at its current step: the locals of the
\* try block are gone.
Thrown(unit) ==
    [unit EXCEPT !.failedAt = unit.pc, !.originalSize = 0, !.thumbSize = 0,
                 !.optimizedSize = 0]

\* CatchError without the try/catch around the awaits: the error leaves
\* processImage, whose promise rejects.
CatchError_rethrow(i) ==
    /\ units' = [units EXCEPT ![i] =
                   [Thrown(units[i]) EXCEPT !.pc = "rejected", !.result = Null]]
    /\ errorLog' = errorLog
    /\ settleOrder' = Append(settleOrder, i)

\* catch (error) { console.error(`Error processing ${filename}:`, ...);
\* return null; } : the unit settles with null.
CatchError(i) ==
    /\ units' = [units EXCEPT ![i] =
                   [Thrown(units[i]) EXCEPT !.pc = "fulfilled", !.result = Null]]
    /\ errorLog' = Append(errorLog, imageFiles[i])
    /\ settleOrder' = Append(settleOrder, i)

\* const originalSize = await getFileSize(inputPath): the size fs.stat
\* reports, or 0 when fs.stat throws.
StatInput(i) ==
    /\ AtStep(i, "statInput")
    /\ \E size \in 0..MaxSize :
         units' = [units EXCEPT ![i].originalSize = size, ![i].pc = "copy"]
    /\ access' = access \cup {Accessed(i, "stat", inputPath(imageFiles[i]))}
    /\ UNCHANGED <<mainpc, dirIdx, dirEntries, disk, imageFiles, errorLog,
                   fatalLogged, report, exitCode, setupFailed, settleOrder>>

\* Removing a path from the disk.
RemoveFile(d, path) == [p \in DOMAIN d \ {path} |-> d[p]]

\* CopyOk with the original moved (fs.rename) instead of copied.
CopyOk_move(i) ==
    /\ AtStep(i, "copy")
    /\ LET filename == imageFiles[i]
       IN  /\ disk' = RemoveFile(
                         WriteFile(disk, originalPath(filename),
                                   ReadFile(disk, inputPath(filename))),
                         inputPath(filename))
           /\ access' = access \cup
                  {Accessed(i, "read", inputPath(filename)),
                   Accessed(i, "write", originalPath(filename))}
    /\ units' = [units EXCEPT ![i].pc = "thumbnail"]
    /\ UNCHANGED <<mainpc, dirIdx, dirEntries, imageFiles, errorLog,
                   fatalLogged, report, exitCode, setupFailed, settleOrder>>

\* await fs.copyFile(inputPath, originalPath) succeeds.
CopyOk(i) ==
    /\ AtStep(i, "copy")
    /\ LET filename == imageFiles[i]
       IN  /\ disk' = WriteFile(disk, originalPath(filename),
                                    ReadFile(disk, inputPath(filename)))
           /\ access' = access \cup
                  {Accessed(i, "read", inputPath(filename)),
                   Accessed(i, "write", originalPath(filename))}
    /\ units' = [units EXCEPT ![i].pc = "thumbnail"]
    /\ UNCHANGED <<mainpc, dirIdx, dirEntries, imageFiles, errorLog,
                   fatalLogged, report, exitCode, setupFailed, settleOrder>>

\* CopyFails with the error logged and the unit going on to the thumbnail.
CopyFails_goesOn(i) ==
    /\ AtStep(i, "copy")
    /\ units' = [units EXCEPT ![i].pc = "thumbnail"]
    /\ errorLog' = Append(errorLog, imageFiles[i])
    /\ access' = access \cup {Accessed(i, "read", inputPath(imageFiles[i]))}
    /\ UNCHANGED <<mainpc, dirIdx, dirEntries, disk, imageFiles, fatalLogged,
                   report, exitCode, setupFailed, settleOrder>>

\* await fs.copyFile(inputPath, originalPath) throws.
CopyFails(i) ==
    /\ AtStep(i, "copy")
    /\ CatchError(i)
    /\ access' = access \cup {Accessed(i, "read", inputPath(imageFiles[i]))}
    /\ UNCHANGED <<mainpc, dirIdx, dirEntries, disk, imageFiles, fatalLogged,
                   report, exitCode, setupFailed>>

\* await sharp(inputPath).resize(thumbnailWidth, ...).jpeg(...).toFile(
\* thumbPath) succeeds.
ThumbnailOk(i) ==
    /\ AtStep(i, "thumbnail")
    /\ LET filename == imageFiles[i]
       IN  /\ disk' = WriteFile(disk, thumbPath(filename),
                                    Encode(ReadFile(disk, inputPath(filename)),
                                           thumbnailWidth, thumbnailQuality))
           /\ access' = access \cup
                  {Accessed(i, "read", inputPath(filename)),
                   Accessed(i, "write", thumbPath(filename))}
    /\ units' = [units EXCEPT ![i].pc = "optimized"]
    /\ UNCHANGED <<mainpc, dirIdx, dirEntries, imageFiles, errorLog,
                   fatalLogged, report, exitCode, setupFailed, settleOrder>>

\* The thumbnail pipeline throws (unreadable or corrupt input, failed write).
ThumbnailFails(i) ==
    /\ AtStep(i, "thumbnail")
    /\ CatchError(i)
    /\ access' = access \cup {Accessed(i, "read", inputPath(imageFiles[i]))}
    /\ UNCHANGED <<mainpc, dirIdx, dirEntries, disk, imageFiles, fatalLogged,
                   report, exitCode, setupFailed>>

\* await sharp(inputPath).resize(fullSizeWidth, ...).jpeg(...).toFile(
\* optimizedPath) succeeds.
OptimizedOk(i) ==
    /\ AtStep(i, "optimized")
    /\ LET filename == imageFiles[i]
       IN  /\ disk' = WriteFile(disk, optimizedPath(filename),
                                    Encode(ReadFile(disk, inputPath(filename)),
                                           fullSizeWidth, fullSizeQuality))
           /\ access' = access \cup
                  {Accessed(i, "read", inputPath(filename)),
                   Accessed(i, "write", optimizedPath(filename))}
    /\ units' = [units EXCEPT ![i].pc = "statThumb"]
    /\ UNCHANGED <<mainpc, dirIdx, dirEntries, imageFiles, errorLog,
                   fatalLogged, report, exitCode, setupFailed, settleOrder>>

\* The full-size pipeline throws.
OptimizedFails(i) ==
    /\ AtStep(i, "optimized")
    /\ CatchError(i)
    /\ access' = access \cup {Accessed(i, "read", inputPath(imageFiles[i]))}
    /\ UNCHANGED <<mainpc, dirIdx, dirEntries, disk, imageFiles, fatalLogged,
                   report, exitCode, setupFailed>>

\* const thumbSize = await getFileSize(thumbPath)
StatThumb(i) ==
    /\ AtStep(i, "statThumb")
    /\ \E size \in 0..MaxSize :
         units' = [units EXCEPT ![i].thumbSize = size, ![i].pc = "statOptimized"]
    /\ access' = access \cup {Accessed(i, "stat", thumbPath(imageFiles[i]))}
    /\ UNCHANGED <<mainpc, dirIdx, dirEntries, disk, imageFiles, errorLog,
                   fatalLogged, report, exitCode, setupFailed, settleOrder>>

\* const optimizedSize = await getFileSize(optimizedPath), then the savings
\* are computed and the result object is returned.
StatOptimized(i) ==
    /\ AtStep(i, "statOptimized")
    /\ \E size \in 0..MaxSize :
         units' = [units EXCEPT
                     ![i].optimizedSize = size,
                     ![i].pc = "fulfilled",
                     ![i].result = Result(imageFiles[i], units[i].originalSize,
                                          units[i].thumbSize, size)]
    /\ access' = access \cup {Accessed(i, "stat", optimizedPath(imageFiles[i]))}
    /\ settleOrder' = Append(settleOrder, i)
    /\ UNCHANGED <<mainpc, dirIdx, dirEntries, disk, imageFiles, errorLog,
                   fatalLogged, report, exitCode, setupFailed>>

\* ------------------------------------------------------------- the report

RECURSIVE FloorLog1024(_)
\* Math.floor(Math.log(bytes) / Math.log(1024)) for bytes >= 1.
FloorLog1024(bytes) ==
    IF bytes < 1024 THEN 0 ELSE 1 + FloorLog1024(bytes \div 1024)

RECURSIVE Pow1024(_)
\* Math.pow(1024, i)
Pow1024(i) == IF i = 0 THEN 1 ELSE 1024 * Pow1024(i - 1)

sizes == <<"Bytes", "KB", "MB">>

\* (bytes / k).toFixed(2) in hundredths, k a power of 1024: the quotient
\* to the nearest hundredth, the larger one on a tie. The division by 1024
\* is taken out of the remainder first, which keeps every intermediate
\* value below 2^31.
Hundredths(bytes, k) ==
    IF k = 1 THEN 100 * bytes
    ELSE LET r == bytes % k
             kHigh == k \div 1024
             rHigh == r \div 1024
             rLow == r % 1024
         IN  100 * (bytes \div k)
             + (200 * rHigh + kHigh + (200 * rLow) \div 1024) \div (2 * kHigh)

\* formatBytes(bytes): the number printed, in hundredths (toFixed(2), then
\* parseFloat), and the unit sizes[i], undefined beyond the array.
formatBytes(bytes) ==
    IF bytes = 0 THEN [hundredths |-> 0, unit |-> "Bytes"]
    ELSE LET i == FloorLog1024(bytes)
             k == Pow1024(i)
         IN  [hundredths |-> Hundredths(bytes, k),
              unit |-> IF i + 1 <= Len(sizes) THEN sizes[i + 1]
                       ELSE "undefined"]

\* Byte counts around the powers of 1024, up to the largest below 2^31.
ByteCounts ==
    {m * Pow1024(i) + d : m \in {1, 2, 3, 10, 100, 512, 1000, 1023},
                          i \in 0..2, d \in {-1, 0, 1}}
    \cup {1536, 1048576 + 524288, 5243, 1029,
          1073741823, 1073741824, 1073741825, 1610612736, 2147483647}

FmtInit ==
    /\ ImageIdle
    /\ GeoIdle
    /\ RerunIdle
    /\ AssetIdle
    /\ LbIdle
    /\ fmtBytes \in ByteCounts
    /\ fmtText = NoText

\* formatBytes(fmtBytes) is called and returns.
FormatCall ==
    /\ fmtText = NoText
    /\ fmtText' = formatBytes(fmtBytes)
    /\ UNCHANGED fmtBytes

\* PromiseAll as Promise.race would behave: settled as soon as one promise is.
PromiseAll_race(promises) ==
    IF \E k \in 1..Len(promises) : promises[k].pc = "rejected" THEN "rejected"
    ELSE IF \/ \E k \in 1..Len(promises) : promises[k].pc = "fulfilled"
            \/ Len(promises) = 0
         THEN "fulfilled"
         ELSE "pending"

\* The state of Promise.all(promises): it rejects as soon as one promise has
\* rejected and fulfils once all have fulfilled.
PromiseAll(promises) ==
    IF \E k \in 1..Len(promises) : promises[k].pc = "rejected" THEN "rejected"
    ELSE IF \A k \in 1..Len(promises) : promises[k].pc = "fulfilled"
         THEN "fulfilled"
         ELSE "pending"

\* Results with every unit pushing its value when it settles: the values in
\* the order of completion.
Results_completionOrder(promises) ==
    [k \in 1..Len(settleOrder) |-> promises[settleOrder[k]].result]

\* The value Promise.all fulfils with: the units' values, by index.
Results(promises) == [k \in 1..Len(promises) |-> promises[k].result]

\* results.filter(r => r !== null)
SuccessfulResults(results) == SelectSeq(results, LAMBDA r : r.kind # "null")

\* TotalOf with = in place of +=: the total is the last result's field.
TotalOf_overwrite(results, field) ==
    IF results = <<>> THEN 0 ELSE results[Len(results)][field]

RECURSIVE TotalOf(_, _)
\* total += result[field] over successfulResults.forEach
TotalOf(results, field) ==
    IF results = <<>> THEN 0
    ELSE TotalOf(SubSeq(results, 1, Len(results) - 1), field)
         + results[Len(results)][field]

\* One line of the table.
Row(result) ==
    [name |-> result.filename,
     orig |-> formatBytes(result.original),
     thumb |-> formatBytes(result.thumbnail),
     opt |-> formatBytes(result.optimized),
     savings |-> result.optimizedSavings]

\* Everything main prints from OPTIMIZATION REPORT on, given the results
\* that are not null and the three totals of its forEach loop.
Printed(successfulResults, totalOriginal, totalThumbs, totalOptimized) ==
    LET totalThumbSavings == Savings(totalThumbs, totalOriginal)
        totalOptimizedSavings == Savings(totalOptimized, totalOriginal)
    IN  [kind |-> "report",
         rows |-> [k \in 1..Len(successfulResults) |-> Row(successfulResults[k])],
         total |-> [orig |-> formatBytes(totalOriginal),
                    thumb |-> formatBytes(totalThumbs),
                    opt |-> formatBytes(totalOptimized),
                    savings |-> totalOptimizedSavings],
         originalTotal |-> formatBytes(totalOriginal),
         thumbnailTotal |-> formatBytes(totalThumbs),
         thumbnailReduction |-> totalThumbSavings,
         optimizedTotal |-> formatBytes(totalOptimized),
         optimizedReduction |-> totalOptimizedSavings,
         initialLoad |-> formatBytes(totalThumbs),
         fullGallery |-> formatBytes(totalThumbs + totalOptimized),
         success |-> TRUE]

\* The report main prints for the values Promise.all fulfilled with.  The
\* filtered results and the totals are bound as the elements of one-element
\* sets, which has each of them computed once.
Report(results) ==
    CHOOSE r \in UNION {
               {Printed(s, totalOriginal, totalThumbs, totalOptimized) :
                    totalOriginal \in {TotalOf(s, "original")},
                    totalThumbs \in {TotalOf(s, "thumbnail")},
                    totalOptimized \in {TotalOf(s, "optimized")}} :
               s \in {SuccessfulResults(results)}} : TRUE

\* AwaitAll with a run that lost a file treated as failed: exit code 1 when
\* some unit returned null.
AwaitAll_strict ==
    /\ mainpc = "await"
    /\ PromiseAll(units) # "pending"
    /\ IF PromiseAll(units) = "rejected"
       THEN MainCatch /\ UNCHANGED report
       ELSE /\ report' = Report(Results(units))
            /\ mainpc' = "done"
            /\ exitCode' = IF \E k \in 1..Len(units) : units[k].result.kind = "null"
                           THEN 1 ELSE 0
            /\ UNCHANGED fatalLogged
    /\ UNCHANGED <<dirIdx, dirEntries, disk, imageFiles, units, errorLog,
                   setupFailed, access, settleOrder>>

\* const results = await Promise.all(...): on fulfilment main prints the
\* report and returns, and the process ends with exit code 0; on rejection
\* main's catch runs.
AwaitAll ==
    /\ mainpc = "await"
    /\ PromiseAll(units) # "pending"
    /\ IF PromiseAll(units) = "rejected"
       THEN MainCatch /\ UNCHANGED report
       ELSE /\ report' = Report(Results(units))
            /\ mainpc' = "done"
            /\ exitCode' = 0
            /\ UNCHANGED fatalLogged
    /\ UNCHANGED <<dirIdx, dirEntries, disk, imageFiles, units, errorLog,
                   setupFailed, access, settleOrder>>

\* ------------------------------------------------------ resize geometry

\* Pixel sizes of source images around the two bounds.
SourceWidths == {1, 300, 599, 600, 601, 900, 1199, 1200, 1201, 2400}
SourceHeights == {1, 400, 630, 1800}

Min(a, b) == IF a < b THEN a ELSE b
Max(a, b) == IF a > b THEN a ELSE b

\* a / b to the nearest integer, b > 0.
RoundDiv(a, b) == (2 * a + b) \div (2 * b)

\* The pixel size of what the codec writes for an image of size meta under
\* the resize options of encoded: with fit 'inside' and no height the image
\* is scaled to the width asked for, its height in proportion, and is left
\* as it is when withoutEnlargement is set and it is narrower.
SharpResize(meta, encoded) ==
    LET width == IF encoded.withoutEnlargement
                 THEN Min(meta.width, encoded.width)
                 ELSE encoded.width
    IN  [width |-> width,
         height |-> Max(1, RoundDiv(meta.height * width, meta.width))]

GeoInit ==
    /\ ImageIdle
    /\ RerunIdle
    /\ AssetIdle
    /\ FmtIdle
    /\ LbIdle
    /\ geoSource \in [width : SourceWidths, height : SourceHeights]
    /\ geoOutput = [t \in ResizeTiers |-> NoGeometry]

\* The file the thumbnail pipeline of processImage writes for the image.
ThumbnailGeometry ==
    /\ geoSource # NoGeometry
    /\ geoOutput["thumbnails"] = NoGeometry
    /\ geoOutput' = [geoOutput EXCEPT !["thumbnails"] =
                        SharpResize(geoSource,
                                    Encode(geoSource, thumbnailWidth,
                                           thumbnailQuality))]
    /\ UNCHANGED geoSource

\* The file the full-size pipeline of processImage writes for the image.
OptimizedGeometry ==
    /\ geoSource # NoGeometry
    /\ geoOutput["optimized"] = NoGeometry
    /\ geoOutput' = [geoOutput EXCEPT !["optimized"] =
                        SharpResize(geoSource,
                                    Encode(geoSource, fullSizeWidth,
                                           fullSizeQuality))]
    /\ UNCHANGED geoSource

\* ------------------------------------------- favicon and Open Graph image

\* CONFIG of the Open Graph script.
ogOutput == "og-image.jpg"
ogWidth == 1200
ogHeight == 630
ogQuality == 90

\* Object.entries(CONFIG.sizes) of the favicon script, in insertion order.
sizesEntries ==
    << [filename |-> "favicon-16x16.png", size |-> 16],
       [filename |-> "favicon-32x32.png", size |-> 32],
       [filename |-> "favicon-48x48.png", size |-> 48],
       [filename |-> "apple-touch-icon.png", size |-> 180],
       [filename |-> "android-chrome-192x192.png", size |-> 192],
       [filename |-> "android-chrome-512x512.png", size |-> 512] >>

icoFile == "favicon.ico"
icoSize == 32
manifestFile == "site.webmanifest"

\* Pixel sizes of the designated source images: one smaller than every
\* target and upright, one larger and wide.
AssetSources == { [width |-> 10, height |-> 20],
                  [width |-> 4000, height |-> 3000] }

\* ResizeCover with fit 'inside' in place of 'cover'.
ResizeCover_inside(w, h) ==
    [width |-> w, height |-> h, fit |-> "inside", position |-> "center",
     withoutEnlargement |-> FALSE]

\* .resize(w, h, { fit: 'cover', position: 'center' }): the options handed
\* to the codec; withoutEnlargement is not given and so false.
ResizeCover(w, h) ==
    [width |-> w, height |-> h, fit |-> "cover", position |-> "center",
     withoutEnlargement |-> FALSE]

\* The pixel size of what the codec writes for an image of size meta under
\* options with both a width and a height: with fit 'cover' the image is
\* scaled until it covers the rectangle and cropped to it; with fit
\* 'inside' it is scaled until it fits into the rectangle, its proportions
\* kept.
SharpResizeBox(meta, options) ==
    IF options.fit = "cover"
    THEN [width |-> options.width, height |-> options.height]
    ELSE IF meta.width * options.height >= meta.height * options.width
         THEN [width |-> options.width,
               height |-> Max(1, RoundDiv(meta.height * options.width,
                                          meta.width))]
         ELSE [width |-> Max(1, RoundDiv(meta.width * options.height,
                                         meta.height)),
               height |-> options.height]

\* What sharp(CONFIG.sourceImage).resize(...).png(...) or .jpeg(...)
\* .toFile(...) writes.
Written(format, quality, meta, options) ==
    [kind |-> "image", format |-> format, quality |-> quality,
     options |-> options, pixels |-> SharpResizeBox(meta, options)]

LogLine(level, text, file) == [level |-> level, text |-> text, file |-> file]

AssetInit ==
    /\ ImageIdle
    /\ GeoIdle
    /\ RerunIdle
    /\ FmtIdle
    /\ LbIdle
    /\ favSource \in AssetSources \cup {NoGeometry}
    /\ favpc = "access"
    /\ favIdx = 1
    /\ favLog = <<>>
    /\ favExit = -1
    /\ ogSource \in AssetSources \cup {NoGeometry}
    /\ ogpc = "access"
    /\ ogLog = <<>>
    /\ ogExit = -1
    /\ assetFiles = [f \in {} |-> Absent]

\* catch (error) { console.error('Fatal error:', ...); process.exit(1); }
\* of the favicon script's main.
FavCatch ==
    /\ favLog' = Append(favLog, LogLine("error", "fatal", ""))
    /\ favpc' = "fatal"
    /\ favExit' = 1

\* await fs.access(CONFIG.sourceImage) returns: the file exists.
FavAccessOk ==
    /\ favpc = "access"
    /\ favSource # NoGeometry
    /\ favpc' = "icons"
    /\ UNCHANGED <<favSource, favIdx, favLog, favExit, ogSource, ogpc, ogLog,
                   ogExit, assetFiles>>

\* FavAccessFails with the error of fs.access ignored.
FavAccessFails_ignored ==
    /\ favpc = "access"
    /\ favSource = NoGeometry
    /\ favpc' = "icons"
    /\ UNCHANGED <<favSource, favIdx, favLog, favExit, ogSource, ogpc, ogLog,
                   ogExit, assetFiles>>

\* await fs.access(CONFIG.sourceImage) throws: the file does not exist.
FavAccessFails ==
    /\ favpc = "access"
    /\ favSource = NoGeometry
    /\ FavCatch
    /\ UNCHANGED <<favSource, favIdx, ogSource, ogpc, ogLog, ogExit,
                   assetFiles>>

\* The loop of main goes on to the next entry, or leaves for createICO.
NextEntry ==
    IF favIdx < Len(sizesEntries)
    THEN favIdx' = favIdx + 1 /\ favpc' = "icons"
    ELSE favIdx' = favIdx /\ favpc' = "ico"

\* await generateFavicon(size, filename), the pipeline succeeding.
GenerateFaviconOk ==
    /\ favpc = "icons"
    /\ favSource # NoGeometry
    /\ LET entry == sizesEntries[favIdx]
       IN  /\ assetFiles' = WriteFile(assetFiles, entry.filename,
                                      Written("png", 100, favSource,
                                              ResizeCover(entry.size,
                                                          entry.size)))
           /\ favLog' = Append(favLog,
                               LogLine("log", "generated", entry.filename))
    /\ NextEntry
    /\ UNCHANGED <<favSource, favExit, ogSource, ogpc, ogLog, ogExit>>

\* GenerateFaviconFails without the try/catch of generateFavicon: the error
\* reaches main's catch.
GenerateFaviconFails_rethrow ==
    /\ favpc = "icons"
    /\ FavCatch
    /\ UNCHANGED <<favSource, favIdx, ogSource, ogpc, ogLog, ogExit,
                   assetFiles>>

\* await generateFavicon(size, filename), the pipeline throwing: the catch
\* of generateFavicon logs the file and returns false.
GenerateFaviconFails ==
    /\ favpc = "icons"
    /\ favLog' = Append(favLog, LogLine("error", "failed",
                                        sizesEntries[favIdx].filename))
    /\ NextEntry
    /\ UNCHANGED <<favSource, favExit, ogSource, ogpc, ogLog, ogExit,
                   assetFiles>>

\* await createICO(), the pipeline succeeding.
CreateICOOk ==
    /\ favpc = "ico"
    /\ favSource # NoGeometry
    /\ assetFiles' = WriteFile(assetFiles, icoFile,
                               Written("png", 100, favSource,
                                       ResizeCover(icoSize, icoSize)))
    /\ favLog' = Append(favLog, LogLine("log", "generated", icoFile))
    /\ favpc' = "manifest"
    /\ UNCHANGED <<favSource, favIdx, favExit, ogSource, ogpc, ogLog, ogExit>>

\* await createICO(), the pipeline throwing.
CreateICOFails ==
    /\ favpc = "ico"
    /\ favLog' = Append(favLog, LogLine("error", "failed", icoFile))
    /\ favpc' = "manifest"
    /\ UNCHANGED <<favSource, favIdx, favExit, ogSource, ogpc, ogLog, ogExit,
                   assetFiles>>

\* await generateManifest() returns; main prints SUCCESS and the list of
\* files and returns.
GenerateManifestOk ==
    /\ favpc = "manifest"
    /\ assetFiles' = WriteFile(assetFiles, manifestFile,
                               [kind |-> "manifest",
                                icons |-> <<"android-chrome-192x192.png",
                                            "android-chrome-512x512.png">>])
    /\ favLog' = favLog \o << LogLine("log", "generated", manifestFile),
                              LogLine("log", "success", "") >>
    /\ favpc' = "done"
    /\ favExit' = 0
    /\ UNCHANGED <<favSource, favIdx, ogSource, ogpc, ogLog, ogExit>>

\* fs.writeFile of generateManifest throws: nothing catches it before main.
GenerateManifestFails ==
    /\ favpc = "manifest"
    /\ FavCatch
    /\ UNCHANGED <<favSource, favIdx, ogSource, ogpc, ogLog, ogExit,
                   assetFiles>>

\* catch (error) { console.error('Fatal error:', ...); process.exit(1); }
\* of generateOGImage.
OGCatch ==
    /\ ogLog' = Append(ogLog, LogLine("error", "fatal", ""))
    /\ ogpc' = "fatal"
    /\ ogExit' = 1

\* await fs.access(CONFIG.sourceImage) returns.
OGAccessOk ==
    /\ ogpc = "access"
    /\ ogSource # NoGeometry
    /\ ogLog' = Append(ogLog, LogLine("log", "found", ""))
    /\ ogpc' = "metadata"
    /\ UNCHANGED <<favSource, favpc, favIdx, favLog, favExit, ogSource,
                   ogExit, assetFiles>>

\* await fs.access(CONFIG.sourceImage) throws: the file does not exist.
OGAccessFails ==
    /\ ogpc = "access"
    /\ ogSource = NoGeometry
    /\ OGCatch
    /\ UNCHANGED <<favSource, favpc, favIdx, favLog, favExit, ogSource,
                   assetFiles>>

\* await sharp(CONFIG.sourceImage).metadata() returns.
OGMetadataOk ==
    /\ ogpc = "metadata"
    /\ ogLog' = Append(ogLog, LogLine("log", "dimensions", ""))
    /\ ogpc' = "resize"
    /\ UNCHANGED <<favSource, favpc, favIdx, favLog, favExit, ogSource,
                   ogExit, assetFiles>>

\* await sharp(CONFIG.sourceImage).metadata() throws.
OGMetadataFails ==
    /\ ogpc = "metadata"
    /\ OGCatch
    /\ UNCHANGED <<favSource, favpc, favIdx, favLog, favExit, ogSource,
                   assetFiles>>

\* await sharp(...).resize(width, height, ...).jpeg(...).toFile(outputPath)
\* succeeds.
OGResizeOk ==
    /\ ogpc = "resize"
    /\ assetFiles' = WriteFile(assetFiles, ogOutput,
                               Written("jpeg", ogQuality, ogSource,
                                       ResizeCover(ogWidth, ogHeight)))
    /\ ogpc' = "stat"
    /\ UNCHANGED <<favSource, favpc, favIdx, favLog, favExit, ogSource,
                   ogLog, ogExit>>

\* The pipeline throws.
OGResizeFails ==
    /\ ogpc = "resize"
    /\ OGCatch
    /\ UNCHANGED <<favSource, favpc, favIdx, favLog, favExit, ogSource,
                   assetFiles>>

\* await fs.stat(CONFIG.outputPath) returns; SUCCESS is printed and
\* generateOGImage returns.
OGStatOk ==
    /\ ogpc = "stat"
    /\ ogLog' = Append(ogLog, LogLine("log", "success", ogOutput))
    /\ ogpc' = "done"
    /\ ogExit' = 0
    /\ UNCHANGED <<favSource, favpc, favIdx, favLog, favExit, ogSource,
                   assetFiles>>

\* await fs.stat(CONFIG.outputPath) throws.
OGStatFails ==
    /\ ogpc = "stat"
    /\ OGCatch
    /\ UNCHANGED <<favSource, favpc, favIdx, favLog, favExit, ogSource,
                   assetFiles>>

\* ------------------------------------------------------------ second run

\* The entries of the input directory on the disk, those of listing first
\* and in its order.
ReadDir(d, listing, more) ==
    /\ Range(more) = {p[2] : p \in {q \in DOMAIN d : q[1] = "input"}}
                         \ Range(listing)
    /\ IsDistinct(more)

\* The entries a listing can gain.
NewEntries(d, listing) ==
    {more \in DistinctSeqs({p[2] : p \in DOMAIN d}, MaxFiles) :
        ReadDir(d, listing, more)}

\* The names whose unit did not return a result.
FailedNames == {imageFiles[i] : i \in {k \in 1..Len(units) :
                                         units[k].result.kind = "null"}}

\* node optimize-images.js once more, after the first run has ended: a new
\* process over the disk as the first left it.
Rerun ==
    /\ run = 1
    /\ mainpc \in {"done", "fatal"}
    /\ run' = 2
    /\ firstRun' = [kind |-> "run", ended |-> mainpc, disk |-> disk,
                    imageFiles |-> imageFiles, failed |-> FailedNames]
    /\ mainpc' = "mkdir"
    /\ dirIdx' = 1
    /\ \E more \in NewEntries(disk, dirEntries) :
          dirEntries' = dirEntries \o more
    /\ imageFiles' = <<>>
    /\ units' = <<>>
    /\ errorLog' = <<>>
    /\ fatalLogged' = FALSE
    /\ report' = NoReport
    /\ exitCode' = -1
    /\ setupFailed' = FALSE
    /\ access' = {}
    /\ settleOrder' = <<>>
    /\ UNCHANGED disk

\* fs.stat reports 0 or 1 in the runs that are followed by a second: the
\* sizes are printed, never written.
SmallSizes ==
    \A i \in 1..Len(units) :
        /\ units[i].originalSize <= 1
        /\ units[i].thumbSize <= 1
        /\ units[i].optimizedSize <= 1

\* ------------------------------------------------------------ the lightbox

\* Largest number of paintings the gallery hands to Lightbox.init.
MaxPaintings == 3

\* Largest number of calls of Lightbox.init on one page.
MaxInits == 2

\* Largest number of calls of Lightbox.open on one page.
MaxOpens == 3

\* What JavaScript's arithmetic yields for x % 0.
NaN == -1

\* e.key of the keydown events the page receives.
Keys == {"Escape", "ArrowLeft", "ArrowRight", "Tab", "Enter"}

\* screenX of a touch.
ScreenXs == {0, 50, 51}

swipeThreshold == 50

\* The fields of Lightbox and of the page that its methods write.
LbState ==
    [paintings |-> paintings, currentIndex |-> currentIndex,
     isOpen |-> isOpen, classActive |-> classActive,
     ariaHidden |-> ariaHidden, overflow |-> overflow, shown |-> shown,
     focus |-> focus]

\* a % n.
Remainder(a, n) == IF a = NaN \/ n = 0 THEN NaN ELSE a % n

\* updateContent(): nothing when this.paintings[this.currentIndex] is
\* undefined, else the image, the info and the counter of that painting.
updateContent(s) ==
    IF s.currentIndex = NaN \/ s.currentIndex >= s.paintings
    THEN s
    ELSE [s EXCEPT !.shown = <<s.currentIndex + 1, s.paintings>>]

\* open(index), but for trapFocus: closeBtn.focus() comes after
\* updateContent().
open(s, index) ==
    [updateContent([s EXCEPT !.currentIndex = index,
                             !.isOpen = TRUE,
                             !.classActive = TRUE,
                             !.ariaHidden = "false",
                             !.overflow = "hidden"])
        EXCEPT !.focus = "close"]

\* close() without its last line.
close_scrollLocked(s) ==
    [s EXCEPT !.isOpen = FALSE,
              !.classActive = FALSE,
              !.ariaHidden = "true"]

close(s) ==
    [s EXCEPT !.isOpen = FALSE,
              !.classActive = FALSE,
              !.ariaHidden = "true",
              !.overflow = ""]

prev(s) ==
    updateContent(
        [s EXCEPT !.currentIndex =
            IF s.currentIndex = NaN THEN NaN
            ELSE Remainder(s.currentIndex - 1 + s.paintings, s.paintings)])

\* next() stopping at the last painting instead of going round.
next_stopAtEnd(s) ==
    updateContent(
        [s EXCEPT !.currentIndex =
            IF s.currentIndex = NaN THEN NaN
            ELSE IF s.currentIndex + 1 >= s.paintings THEN s.currentIndex
            ELSE s.currentIndex + 1])

next(s) ==
    updateContent(
        [s EXCEPT !.currentIndex =
            IF s.currentIndex = NaN THEN NaN
            ELSE Remainder(s.currentIndex + 1, s.paintings)])

\* The keydown listener of attachEvents without its first line.
keydown_unguarded(s, key) ==
    CASE key = "Escape" -> close(s)
      [] key = "ArrowLeft" -> prev(s)
      [] key = "ArrowRight" -> next(s)
      [] OTHER -> s

\* The keydown listener attachEvents registers on the document.
keydown(s, key) ==
    IF ~s.isOpen THEN s
    ELSE CASE key = "Escape" -> close(s)
           [] key = "ArrowLeft" -> prev(s)
           [] key = "ArrowRight" -> next(s)
           [] OTHER -> s

\* The nodes of the lightbox that match trapFocus's selector, in document
\* order: the three buttons createLightbox appends to the content.
Focusable == <<"close", "prev", "next">>
firstFocusable == Focusable[1]
lastFocusable == Focusable[Len(Focusable)]

\* The listener of trapFocus with its two tests folded into one that does
\* not look at e.shiftKey.
TrapListener_eitherEnd(t, ev) ==
    IF ev.key # "Tab" THEN t
    ELSE IF t.focus = lastFocusable
         THEN [focus |-> firstFocusable, defaultPrevented |-> TRUE]
         ELSE IF t.focus = firstFocusable
              THEN [focus |-> lastFocusable, defaultPrevented |-> TRUE]
              ELSE t

\* The keydown listener trapFocus registers on the lightbox, run on the
\* focus and the defaultPrevented flag the listeners before it left.
TrapListener(t, ev) ==
    IF ev.key # "Tab" THEN t
    ELSE IF ev.shiftKey
         THEN IF t.focus = firstFocusable
              THEN [focus |-> lastFocusable, defaultPrevented |-> TRUE]
              ELSE t
         ELSE IF t.focus = lastFocusable
              THEN [focus |-> firstFocusable, defaultPrevented |-> TRUE]
              ELSE t

RECURSIVE TrapDispatch(_, _, _)
\* The event handed to the k listeners k calls of open() have registered.
TrapDispatch(t, ev, k) ==
    IF k = 0 THEN t ELSE TrapDispatch(TrapListener(t, ev), ev, k - 1)

RECURSIVE IndexOf(_, _)
\* The position of x in the sequence q, 0 when it is not there.
IndexOf(q, x) ==
    IF q = <<>> THEN 0
    ELSE IF q[Len(q)] = x /\ IndexOf(SubSeq(q, 1, Len(q) - 1), x) = 0
         THEN Len(q)
         ELSE IndexOf(SubSeq(q, 1, Len(q) - 1), x)

\* Where the browser may move the focus for a Tab that no listener
\* prevented: to the neighbour in document order, off the lightbox past its
\* ends, and from the page on to the page or into the lightbox.
TabDefault(f, shiftKey) ==
    LET k == IndexOf(Focusable, f)
        to == IF shiftKey THEN k - 1 ELSE k + 1
    IN  IF k = 0
        THEN {"page", IF shiftKey THEN lastFocusable ELSE firstFocusable}
        ELSE IF to \in 1..Len(Focusable) THEN {Focusable[to]} ELSE {"page"}

\* handleSwipe taking a difference of swipeThreshold for a swipe.
handleSwipe_atThreshold(s, startX, endX) ==
    LET diff == startX - endX
        abs == IF diff < 0 THEN -diff ELSE diff
    IN  IF abs >= swipeThreshold
        THEN IF diff > 0 THEN next(s) ELSE prev(s)
        ELSE s

handleSwipe(s, startX, endX) ==
    LET diff == startX - endX
        abs == IF diff < 0 THEN -diff ELSE diff
    IN  IF abs > swipeThreshold
        THEN IF diff > 0 THEN next(s) ELSE prev(s)
        ELSE s

\* One listener of attachEvents run on the event it is registered for.
Listener(s, ev) ==
    CASE ev.type = "click" ->
            (CASE ev.target \in {"close", "overlay"} -> close(s)
               [] ev.target = "prev" -> prev(s)
               [] ev.target = "next" -> next(s))
      [] ev.type = "keydown" -> keydown(s, ev.key)
      [] ev.type = "touchend" -> handleSwipe(s, ev.startX, ev.endX)

RECURSIVE Dispatch(_, _, _)
\* The event handed to the k listeners registered for it, one after the
\* other: every call of attachEvents adds one more to the same nodes.
Dispatch(s, ev, k) ==
    IF k = 0 THEN s ELSE Dispatch(Listener(s, ev), ev, k - 1)

\* The fields of s written back, after the event ev.
Becomes(s, ev) ==
    /\ paintings' = s.paintings
    /\ currentIndex' = s.currentIndex
    /\ isOpen' = s.isOpen
    /\ classActive' = s.classActive
    /\ ariaHidden' = s.ariaHidden
    /\ overflow' = s.overflow
    /\ shown' = s.shown
    /\ focus' = s.focus
    /\ lastEvent' = ev
    /\ before' = LbState

LbInit ==
    /\ ImageIdle
    /\ GeoIdle
    /\ RerunIdle
    /\ AssetIdle
    /\ FmtIdle
    /\ paintings = 0
    /\ currentIndex = 0
    /\ element = FALSE
    /\ isOpen = FALSE
    /\ classActive = FALSE
    /\ ariaHidden = "none"
    /\ overflow = ""
    /\ shown = <<>>
    /\ focus = "page"
    /\ listeners = 0
    /\ trapListeners = 0
    /\ lastEvent = NoEvent
    /\ before = NoEvent

\* Lightbox.init(paintings), called by Gallery.init once the gallery is
\* rendered: createLightbox makes the node unless there is one, attachEvents
\* registers its listeners again on every call.
init ==
    /\ listeners < MaxInits
    /\ \E n \in 0..MaxPaintings :
          Becomes([LbState EXCEPT
                      !.paintings = n,
                      !.ariaHidden = IF element THEN @ ELSE "true"],
                  [type |-> "init"])
    /\ element' = TRUE
    /\ listeners' = listeners + 1
    /\ UNCHANGED trapListeners

\* A click or Enter on the gallery item of painting index: the items are
\* those of the array the lightbox was last initialised with.
Open ==
    /\ element
    /\ trapListeners < MaxOpens
    /\ \E index \in 0..(paintings - 1) :
          Becomes(open(LbState, index), [type |-> "open", index |-> index])
    /\ trapListeners' = trapListeners + 1
    /\ UNCHANGED <<element, listeners>>

\* An input event on the page, handed to every listener registered for it.
Event(ev) ==
    /\ element
    /\ Becomes(Dispatch(LbState, ev, listeners), ev)
    /\ UNCHANGED <<element, listeners, trapListeners>>

ClickClose ==
    \E target \in {"close", "overlay"} :
        Event([type |-> "click", target |-> target])

ClickPrev == Event([type |-> "click", target |-> "prev"])

ClickNext == Event([type |-> "click", target |-> "next"])

\* A key pressed on the page.  The event reaches the listeners trapFocus
\* registered on the lightbox when the focused node is inside it, then the
\* listeners attachEvents registered on the document; the browser then moves
\* the focus for Tab unless a listener called e.preventDefault().  (The
\* click a browser makes of Enter on a focused button is the click event.)
KeyPress ==
    \E key \in Keys, shiftKey \in BOOLEAN :
        LET ev == [type |-> "keydown", key |-> key, shiftKey |-> shiftKey]
            untouched == [focus |-> focus, defaultPrevented |-> FALSE]
            trapped == IF focus \in Range(Focusable)
                       THEN TrapDispatch(untouched, ev, trapListeners)
                       ELSE untouched
            handled == Dispatch([LbState EXCEPT !.focus = trapped.focus],
                                ev, listeners)
        IN  /\ element
            /\ \E f \in (IF key = "Tab" /\ ~trapped.defaultPrevented
                          THEN TabDefault(handled.focus, shiftKey)
                          ELSE {handled.focus}) :
                    Becomes([handled EXCEPT !.focus = f], ev)
            /\ UNCHANGED <<element, listeners, trapListeners>>

Swipe ==
    \E startX, endX \in ScreenXs :
        Event([type |-> "touchend", startX |-> startX, endX |-> endX])

\* --------------------------------------------------------- specifications

imageVars == <<mainpc, dirIdx, dirEntries, disk, imageFiles, units, errorLog,
               fatalLogged, report, exitCode, setupFailed, access, settleOrder>>

besideImage == <<geoVars, rerunVars, assetVars, fmtVars, lbVars>>
besideGeo == <<imageVars, rerunVars, assetVars, fmtVars, lbVars>>
besideRerun == <<geoVars, assetVars, fmtVars, lbVars>>
besideAsset == <<imageVars, geoVars, rerunVars, fmtVars, lbVars>>
besideFmt == <<imageVars, geoVars, rerunVars, assetVars, lbVars>>
besideLb == <<imageVars, geoVars, rerunVars, assetVars, fmtVars>>

\* One run of the image optimisation script.
Next ==
    \/ MkdirOk /\ UNCHANGED besideImage
    \/ MkdirFails /\ UNCHANGED besideImage
    \/ ReadDirOk /\ UNCHANGED besideImage
    \/ ReadDirFails /\ UNCHANGED besideImage
    \/ \E i \in 1..Len(units) : StatInput(i) /\ UNCHANGED besideImage
    \/ \E i \in 1..Len(units) : CopyOk(i) /\ UNCHANGED besideImage
    \/ \E i \in 1..Len(units) : CopyFails(i) /\ UNCHANGED besideImage
    \/ \E i \in 1..Len(units) : ThumbnailOk(i) /\ UNCHANGED besideImage
    \/ \E i \in 1..Len(units) : ThumbnailFails(i) /\ UNCHANGED besideImage
    \/ \E i \in 1..Len(units) : OptimizedOk(i) /\ UNCHANGED besideImage
    \/ \E i \in 1..Len(units) : OptimizedFails(i) /\ UNCHANGED besideImage
    \/ \E i \in 1..Len(units) : StatThumb(i) /\ UNCHANGED besideImage
    \/ \E i \in 1..Len(units) : StatOptimized(i) /\ UNCHANGED besideImage
    \/ AwaitAll /\ UNCHANGED besideImage

Spec == Init /\ [][Next]_vars

\* The resize of one image by the two tiers.
GeoNext ==
    \/ ThumbnailGeometry /\ UNCHANGED besideGeo
    \/ OptimizedGeometry /\ UNCHANGED besideGeo

GeoSpec == GeoInit /\ [][GeoNext]_vars

\* Two runs of the script, one after the other, over one directory.
RerunNext ==
    \/ MkdirOk /\ UNCHANGED besideImage
    \/ MkdirFails /\ UNCHANGED besideImage
    \/ ReadDirOk /\ UNCHANGED besideImage
    \/ ReadDirFails /\ UNCHANGED besideImage
    \/ \E i \in 1..Len(units) :
          StatInput(i) /\ SmallSizes' /\ UNCHANGED besideImage
    \/ \E i \in 1..Len(units) : CopyOk(i) /\ UNCHANGED besideImage
    \/ \E i \in 1..Len(units) : CopyFails(i) /\ UNCHANGED besideImage
    \/ \E i \in 1..Len(units) : ThumbnailOk(i) /\ UNCHANGED besideImage
    \/ \E i \in 1..Len(units) : ThumbnailFails(i) /\ UNCHANGED besideImage
    \/ \E i \in 1..Len(units) : OptimizedOk(i) /\ UNCHANGED besideImage
    \/ \E i \in 1..Len(units) : OptimizedFails(i) /\ UNCHANGED besideImage
    \/ \E i \in 1..Len(units) :
          StatThumb(i) /\ SmallSizes' /\ UNCHANGED besideImage
    \/ \E i \in 1..Len(units) :
          StatOptimized(i) /\ SmallSizes' /\ UNCHANGED besideImage
    \/ AwaitAll /\ UNCHANGED besideImage
    \/ Rerun /\ UNCHANGED besideRerun

RerunSpec == Init /\ [][RerunNext]_vars

\* The favicon script and the Open Graph script, each run once.
AssetNext ==
    \/ FavAccessOk /\ UNCHANGED besideAsset
    \/ FavAccessFails /\ UNCHANGED besideAsset
    \/ GenerateFaviconOk /\ UNCHANGED besideAsset
    \/ GenerateFaviconFails /\ UNCHANGED besideAsset
    \/ CreateICOOk /\ UNCHANGED besideAsset
    \/ CreateICOFails /\ UNCHANGED besideAsset
    \/ GenerateManifestOk /\ UNCHANGED besideAsset
    \/ GenerateManifestFails /\ UNCHANGED besideAsset
    \/ OGAccessOk /\ UNCHANGED besideAsset
    \/ OGAccessFails /\ UNCHANGED besideAsset
    \/ OGMetadataOk /\ UNCHANGED besideAsset
    \/ OGMetadataFails /\ UNCHANGED besideAsset
    \/ OGResizeOk /\ UNCHANGED besideAsset
    \/ OGResizeFails /\ UNCHANGED besideAsset
    \/ OGStatOk /\ UNCHANGED besideAsset
    \/ OGStatFails /\ UNCHANGED besideAsset

AssetSpec == AssetInit /\ [][AssetNext]_vars

\* One call of formatBytes.
FmtNext == FormatCall /\ UNCHANGED besideFmt

FmtSpec == FmtInit /\ [][FmtNext]_vars

\* The lightbox on one page.
LbNext ==
    \/ init /\ UNCHANGED besideLb
    \/ Open /\ UNCHANGED besideLb
    \/ ClickClose /\ UNCHANGED besideLb
    \/ ClickPrev /\ UNCHANGED besideLb
    \/ ClickNext /\ UNCHANGED besideLb
    \/ KeyPress /\ UNCHANGED besideLb
    \/ Swipe /\ UNCHANGED besideLb

LbSpec == LbInit /\ [][LbNext]_vars

\* ================================================================ claims

Units == 1..Len(units)

\* The units one of whose awaited calls (copy, thumbnail, optimized) threw.
FailedUnits == {i \in Units : units[i].failedAt # "none"}

Reported == report.kind = "report"

RowNames == [k \in 1..Len(report.rows) |-> report.rows[k].name]

\* How many lines of the error log name the file.
ErrorLines(filename) ==
    Cardinality({k \in 1..Len(errorLog) : errorLog[k] = filename})

\* C1: batch isolation. Whatever subset of the units fails at the copy, the
\* thumbnail or the full-size step, no unit's promise rejects and Promise.all
\* never rejects; every failed unit has exactly one error line naming its
\* file and every other unit none; and once the report is printed every unit
\* has settled, the files of the units that did not fail are exactly the rows
\* of the report, and no failed file has a row.
C1_BatchIsolation ==
    /\ \A i \in Units : units[i].pc # "rejected"
    /\ PromiseAll(units) # "rejected"
    /\ mainpc = "fatal" => units = <<>>
    /\ \A i \in Units :
         ErrorLines(imageFiles[i]) = IF i \in FailedUnits THEN 1 ELSE 0
    /\ Reported =>
         /\ \A i \in Units : units[i].pc = "fulfilled"
         /\ Range(RowNames) = {imageFiles[i] : i \in Units \ FailedUnits}
         /\ Len(RowNames) = Cardinality(Units \ FailedUnits)
         /\ \A i \in FailedUnits : imageFiles[i] \notin Range(RowNames)

\* C1 witness: a batch of two, one unit failed and logged, the other in the
\* report.
C1_Witness ==
    /\ Reported
    /\ Len(units) = 2
    /\ Cardinality(FailedUnits) = 1
    /\ Len(report.rows) = 1
    /\ Len(errorLog) = 1

\* The units whose backup copy has been made.
CopyDone ==
    {i \in Units :
        \/ units[i].pc \in {"thumbnail", "optimized", "statThumb", "statOptimized"}
        \/ units[i].pc = "fulfilled" /\ units[i].failedAt # "copy"}

StepsLeft(pc) ==
    CASE pc = "statInput" -> 6
      [] pc = "copy" -> 5
      [] pc = "thumbnail" -> 4
      [] pc = "optimized" -> 3
      [] pc = "statThumb" -> 2
      [] pc = "statOptimized" -> 1
      [] OTHER -> 0

RECURSIVE UnitStepsLeft(_)
UnitStepsLeft(k) ==
    IF k = 0 THEN 0 ELSE StepsLeft(units[k].pc) + UnitStepsLeft(k - 1)

\* A bound on the steps the run still has to take: main's own steps, each
\* weighted above the steps of all units it may start, then the units'.
StepsToGo ==
    LET mainSteps == CASE mainpc = "mkdir" -> 6 - dirIdx
                       [] mainpc = "readdir" -> 2
                       [] mainpc = "await" -> 1
                       [] OTHER -> 0
    IN  mainSteps * (6 * (MaxFiles + Len(outputDirs)) + 1)
        + UnitStepsLeft(Len(units))

\* C3: once the directories are created and the input directory is read
\* (main awaits the units), the run always has a next step until the report
\* is printed, every step brings the end nearer, and the run ends with the
\* report printed and exit code 0, however many units failed; a non-zero
\* exit code is only ever set after fs.mkdir or fs.readdir threw.
C3_ExitOutcome ==
    /\ [](mainpc = "await" => ENABLED Next)
    /\ [][StepsToGo' < StepsToGo]_vars
    /\ [](~setupFailed /\ mainpc \notin {"mkdir", "readdir", "await"} =>
             mainpc = "done" /\ Reported /\ exitCode = 0)
    /\ [](exitCode > 0 => setupFailed)

\* C3 witness: a run in which every unit failed has printed the report and
\* ended with exit code 0.
C3_Witness ==
    /\ mainpc = "done"
    /\ exitCode = 0
    /\ Reported
    /\ Len(units) = 2
    /\ FailedUnits = Units

\* C4: once fs.mkdir or fs.readdir has thrown, main's catch has logged the
\* error and ended the process with exit code 1; no unit was started, no file
\* was touched and no report was printed.
C4_FatalSetup ==
    setupFailed =>
        /\ mainpc = "fatal"
        /\ fatalLogged
        /\ exitCode = 1
        /\ units = <<>>
        /\ imageFiles = <<>>
        /\ access = {}
        /\ errorLog = <<>>
        /\ ~Reported

\* C4 witness: the second fs.mkdir threw in a directory that holds an image.
C4_Witness ==
    /\ setupFailed
    /\ dirIdx = 2
    /\ exitCode = 1
    /\ \E n \in Range(dirEntries) : IsImageFile(n)

\* c and d are the same character or the two cases of one letter.
CasePairs == {<<UpperChars[k], LowerChars[k]>> : k \in 1..26}

SameLetter(c, d) ==
    \/ c = d
    \/ <<c, d>> \in CasePairs
    \/ <<d, c>> \in CasePairs

EndsWithIgnoringCase(name, ending) ==
    /\ Len(name) >= Len(ending)
    /\ \A k \in 1..Len(ending) :
         SameLetter(name[Len(name) - Len(ending) + k], ending[k])

\* The name ends in .jpg, .jpeg or .png, whatever the case of its letters,
\* and does not start with a dot.
Selected(name) ==
    /\ \/ EndsWithIgnoringCase(name, <<".", "j", "p", "g">>)
       \/ EndsWithIgnoringCase(name, <<".", "j", "p", "e", "g">>)
       \/ EndsWithIgnoringCase(name, <<".", "p", "n", "g">>)
    /\ name[1] # "."

\* The names an access, a derived file, an error line or a row mentions.
TouchedNames ==
    {a.path[2] : a \in access}
    \cup {p[2] : p \in {q \in DOMAIN disk : q[1] \in Tiers}}
    \cup Range(errorLog)
    \cup (IF Reported THEN Range(RowNames) ELSE {})

Touched(name) == name \in TouchedNames

\* C5: once the input directory has been read, an entry has a unit if and
\* only if its name ends in .jpg, .jpeg or .png (case-insensitively) and does
\* not start with a dot; each such entry has one unit, every unit is for an
\* entry, and every other entry (the three output directories among them) is
\* never read, copied, resized, logged or reported.
C5_FileSelection ==
    mainpc \in {"await", "done"} =>
        LET entries == Range(dirEntries)
            selected == {n \in entries : Selected(n)}
            touched == TouchedNames
        IN  /\ {imageFiles[i] : i \in Units} = selected
            /\ IsDistinct(imageFiles)
            /\ touched \cap entries \subseteq selected
            /\ {originals, thumbnails, optimized} \subseteq entries \ selected

\* C5 witness: a finished run over a directory holding a hidden file with an
\* image extension, which got no unit, next to an image, which has a row.
C5_Witness ==
    /\ mainpc = "done"
    /\ \E n \in Range(dirEntries) :
         RegexTest(n) /\ StartsWithDot(n) /\ ~Touched(n)
    /\ Len(imageFiles) = 1
    /\ Len(report.rows) = 1

\* C6: the report is printed only in a step taken when every unit has
\* settled, and whenever a report exists no unit is still running.
C6_FanInBeforeReport ==
    /\ [][report' # report => \A i \in Units : units[i].pc = "fulfilled"]_vars
    /\ [](Reported => \A i \in Units : units[i].pc = "fulfilled")

\* C6 witness: one unit has settled, the other is still between its awaits,
\* and nothing of the report has been printed.
C6_Witness ==
    /\ mainpc = "await"
    /\ ~Reported
    /\ Len(units) = 2
    /\ units[2].pc = "fulfilled"
    /\ units[1].pc = "thumbnail"

\* The files whose units did not fail, in the order of the directory listing.
SucceededInListingOrder ==
    SelectSeq(dirEntries,
              LAMBDA n : \E i \in Units :
                  imageFiles[i] = n /\ units[i].failedAt = "none")

\* C7: whatever order the units settled in, the rows of the report name the
\* successful files in the order fs.readdir returned them.
C7_ReportOrdering == Reported => RowNames = SucceededInListingOrder

\* C7 witness: a report of two rows whose second unit settled first.
C7_Witness ==
    /\ Reported
    /\ Len(report.rows) = 2
    /\ settleOrder = <<2, 1>>

\* C8: no path is written by one unit and read, written or measured by
\* another, and a unit writes only originals/<name>, thumbs/<name> and
\* optimized/<name> for its own file name.
C8_NoWriteConflict ==
    /\ \A a, b \in access :
         a.op = "write" /\ a.unit # b.unit => a.path # b.path
    /\ \A a \in access :
         a.op = "write" =>
            a.path \in {<<t, imageFiles[a.unit]>> : t \in Tiers}

\* C8 witness: two units are under way at once, each having written its
\* thumbnail.
C8_Witness ==
    /\ Len(units) = 2
    /\ units[1].pc = "optimized"
    /\ units[2].pc = "optimized"
    /\ \A i \in Units :
         \E a \in access :
            a.unit = i /\ a.op = "write" /\ a.path[1] = "thumbnails"

RECURSIVE SumOver(_, _)
\* The sum of a field of the results of the units in S.
SumOver(S, field) ==
    IF S = {} THEN 0
    ELSE LET i == CHOOSE j \in S : TRUE
         IN  units[i].result[field] + SumOver(S \ {i}, field)

SucceededUnits == Units \ FailedUnits

\* C9: the printed totals are the sums of the original, thumbnail and
\* optimized sizes over exactly the units that did not fail, the initial load
\* is the thumbnail total and the full gallery size is the thumbnail total
\* plus the optimized total.
C9_AggregateTotals ==
    Reported =>
        LET sumOriginal == SumOver(SucceededUnits, "original")
            sumThumbs == SumOver(SucceededUnits, "thumbnail")
            sumOptimized == SumOver(SucceededUnits, "optimized")
        IN  /\ report.originalTotal = formatBytes(sumOriginal)
            /\ report.thumbnailTotal = formatBytes(sumThumbs)
            /\ report.optimizedTotal = formatBytes(sumOptimized)
            /\ report.total.orig = formatBytes(sumOriginal)
            /\ report.total.thumb = formatBytes(sumThumbs)
            /\ report.total.opt = formatBytes(sumOptimized)
            /\ report.initialLoad = formatBytes(sumThumbs)
            /\ report.fullGallery = formatBytes(sumThumbs + sumOptimized)

\* C9 witness: a report of two rows whose sizes are all positive.
C9_Witness ==
    /\ Reported
    /\ Len(report.rows) = 2
    /\ \A i \in Units :
         /\ units[i].result.original > 0
         /\ units[i].result.thumbnail > 0
         /\ units[i].result.optimized > 0
    /\ report.initialLoad.hundredths >= 200
    /\ report.fullGallery.hundredths > report.initialLoad.hundredths

\* The number a printed percentage stands for, in tenths of a percent.
Tenths(s) == IF s.sign = "-" THEN -s.tenths ELSE s.tenths

Abs(x) == IF x < 0 THEN -x ELSE x

\* s is (1 - size / originalSize) * 100 to the nearest tenth.
IsSavings(s, size, originalSize) ==
    /\ s.kind = "number"
    /\ 2 * Abs(Tenths(s) * originalSize - 1000 * (originalSize - size))
          <= originalSize

\* C10: wherever the original size is positive, each result's thumbnail and
\* optimized savings are (1 - size / original) * 100 to the nearest tenth,
\* the row prints the optimized savings of its file, and the two printed
\* aggregate savings are the same formula over the totals (not over the
\* per-file percentages).
C10_SavingsArithmetic ==
    /\ \A i \in Units :
         LET r == units[i].result
         IN  r.kind = "result" /\ r.original > 0 =>
                /\ IsSavings(r.thumbSavings, r.thumbnail, r.original)
                /\ IsSavings(r.optimizedSavings, r.optimized, r.original)
    /\ Reported =>
         /\ \A k \in 1..Len(report.rows) :
              \E i \in Units :
                 /\ units[i].result.kind = "result"
                 /\ units[i].result.filename = report.rows[k].name
                 /\ units[i].result.optimizedSavings = report.rows[k].savings
         /\ report.total.savings = report.optimizedReduction
         /\ SumOver(SucceededUnits, "original") > 0 =>
              /\ IsSavings(report.thumbnailReduction,
                           SumOver(SucceededUnits, "thumbnail"),
                           SumOver(SucceededUnits, "original"))
              /\ IsSavings(report.optimizedReduction,
                           SumOver(SucceededUnits, "optimized"),
                           SumOver(SucceededUnits, "original"))

\* C10 witness: a report of two rows, both originals positive, whose
\* aggregate thumbnail savings is not the mean of the two rows' savings and
\* is not a whole tenth before rounding.
C10_Witness ==
    /\ Reported
    /\ Len(report.rows) = 2
    /\ \A i \in Units : units[i].result.original > 0
    /\ 2 * Tenths(report.thumbnailReduction)
          # Tenths(units[1].result.thumbSavings)
            + Tenths(units[2].result.thumbSavings)
    /\ (1000 * (SumOver(Units, "original") - SumOver(Units, "thumbnail")))
          % SumOver(Units, "original") # 0

\* A printed savings that is a number or a stated fallback, not the outcome
\* of a division by zero.
IsDefinedSavings(s) == s.kind \in {"number", "n/a"}

\* C11: a result whose measured original size is 0 reports, for each tier, a
\* number or a stated fallback (0% or n/a), never NaN or an infinity.
C11_ZeroSizeFallback ==
    \A i \in Units :
        LET r == units[i].result
        IN  r.kind = "result" /\ r.original = 0 =>
               /\ IsDefinedSavings(r.thumbSavings)
               /\ IsDefinedSavings(r.optimizedSavings)

\* The width a tier asks for.
TierBound(t) == IF t = "thumbnails" THEN 600 ELSE 1200

\* out has the proportions of src, to the nearest pixel of height.
AspectKept(out, src) ==
    \/ 2 * Abs(out.height * src.width - src.height * out.width) <= src.width
    \/ out.height = 1 /\ 2 * src.height * out.width < src.width

\* C12: for every source size and both resize tiers, the file written is
\* min(source width, tier bound) pixels wide with the source's proportions;
\* a source narrower than the bound keeps its size and a wider one comes out
\* exactly as wide as the bound.
C12_BoundFitResize ==
    \A t \in ResizeTiers :
        LET out == geoOutput[t]
        IN  out # NoGeometry =>
               /\ out.width = Min(geoSource.width, TierBound(t))
               /\ AspectKept(out, geoSource)
               /\ geoSource.width <= TierBound(t) =>
                      out = [width |-> geoSource.width,
                             height |-> geoSource.height]
               /\ geoSource.width > TierBound(t) => out.width = TierBound(t)

\* C12 witness: a source between the two bounds, cut down to 600 pixels for
\* the thumbnail and left at its width for the full-size file.
C12_Witness ==
    /\ geoSource = [width |-> 900, height |-> 630]
    /\ geoOutput["thumbnails"] = [width |-> 600, height |-> 420]
    /\ geoOutput["optimized"] = [width |-> 900, height |-> 630]

\* The second run is under way after a first run that printed its report.
SecondRun == run = 2 /\ firstRun.ended = "done"

\* The files of the three output directories.
OutputFiles(d) == {p \in DOMAIN d : p[1] \in Tiers}

TargetSize(file) ==
    CASE file = "favicon-16x16.png" -> <<16, 16>>
      [] file = "favicon-32x32.png" -> <<32, 32>>
      [] file = "favicon-48x48.png" -> <<48, 48>>
      [] file = "apple-touch-icon.png" -> <<180, 180>>
      [] file = "android-chrome-192x192.png" -> <<192, 192>>
      [] file = "android-chrome-512x512.png" -> <<512, 512>>
      [] file = "favicon.ico" -> <<32, 32>>
      [] file = "og-image.jpg" -> <<1200, 630>>

ImageOutputs == {f \in DOMAIN assetFiles : assetFiles[f].kind = "image"}

\* C14: every icon, favicon.ico and the Open Graph image is asked for with
\* exactly its configured width and height, fit 'cover', position 'center'
\* and enlargement allowed, and is written with exactly that pixel size,
\* whatever the size and proportions of the source.
C14_ExactGeometry ==
    \A f \in ImageOutputs :
        LET w == assetFiles[f]
        IN  /\ w.options.width = TargetSize(f)[1]
            /\ w.options.height = TargetSize(f)[2]
            /\ w.options.fit = "cover"
            /\ w.options.position = "center"
            /\ ~w.options.withoutEnlargement
            /\ w.pixels = [width |-> TargetSize(f)[1],
                           height |-> TargetSize(f)[2]]

\* C14 witness: all eight images written, the icons from a source of 10 x 20
\* pixels (smaller than every icon, not square) and the Open Graph image
\* from one of 4000 x 3000.
C14_Witness ==
    /\ Cardinality(ImageOutputs) = 8
    /\ favSource = [width |-> 10, height |-> 20]
    /\ ogSource = [width |-> 4000, height |-> 3000]
    /\ assetFiles["android-chrome-512x512.png"].pixels
          = [width |-> 512, height |-> 512]
    /\ assetFiles["og-image.jpg"].pixels = [width |-> 1200, height |-> 630]

\* The file names main attempts, in order: the entries of CONFIG.sizes, then
\* favicon.ico.
ConfiguredOrder ==
    << "favicon-16x16.png", "favicon-32x32.png", "favicon-48x48.png",
       "apple-touch-icon.png", "android-chrome-192x192.png",
       "android-chrome-512x512.png", "favicon.ico" >>

\* The lines that end an attempt at an image, in the order printed.
AttemptLines ==
    SelectSeq(favLog, LAMBDA l : /\ l.text \in {"generated", "failed"}
                                 /\ l.file # "site.webmanifest")

\* C15: with the source image in place, the attempts made so far are the
\* first of the configured order, each once and in that order, whatever
\* failed before; a failed attempt has an error line naming its file and
\* leaves no file, a successful one has written its file; as long as
\* attempts remain the next one can be made; the manifest is attempted once
\* all seven have been; and the run turns fatal only when the manifest
\* cannot be written.
C15_FaviconIsolation ==
    favSource # NoGeometry /\ favpc # "access" =>
        /\ Len(AttemptLines) <= Len(ConfiguredOrder)
        /\ \A k \in 1..Len(AttemptLines) :
              /\ AttemptLines[k].file = ConfiguredOrder[k]
              /\ AttemptLines[k].text = "failed" =>
                    /\ AttemptLines[k].level = "error"
                    /\ ConfiguredOrder[k] \notin DOMAIN assetFiles
              /\ AttemptLines[k].text = "generated" =>
                    ConfiguredOrder[k] \in DOMAIN assetFiles
        /\ favpc = "icons" =>
              /\ Len(AttemptLines) = favIdx - 1
              /\ favIdx <= 6
              /\ ENABLED GenerateFaviconOk
              /\ ENABLED GenerateFaviconFails
        /\ favpc = "ico" =>
              /\ Len(AttemptLines) = 6
              /\ ENABLED CreateICOOk
              /\ ENABLED CreateICOFails
        /\ favpc = "manifest" =>
              Len(AttemptLines) = 7 /\ ENABLED GenerateManifestOk
        /\ favpc \in {"done", "fatal"} => Len(AttemptLines) = 7
        /\ favpc = "done" <=> "site.webmanifest" \in DOMAIN assetFiles
        /\ favpc \in {"icons", "ico", "manifest", "done", "fatal"}

\* C15 witness: every icon and favicon.ico failed, seven error lines name
\* them in order, and the manifest was written all the same.
C15_Witness ==
    /\ favSource # NoGeometry
    /\ favpc = "done"
    /\ favExit = 0
    /\ Len(AttemptLines) = 7
    /\ \A k \in 1..7 : AttemptLines[k].text = "failed"
    /\ DOMAIN assetFiles \ {"og-image.jpg"} = {"site.webmanifest"}

FatalLine == LogLine("error", "fatal", "")

SuccessLines(log) == {k \in 1..Len(log) : log[k].text = "success"}

\* The files the favicon script writes.
FaviconOutputs == Range(ConfiguredOrder) \cup {"site.webmanifest"}

\* C16: without its designated source image the favicon script can only
\* take the step to its catch, after which it has logged one fatal error,
\* has exit code 1, has written no icon, no favicon.ico and no manifest, and
\* has printed neither an attempt nor SUCCESS; and the same holds of the
\* Open Graph script and og-image.jpg.
C16_MissingSourceFatal ==
    /\ favSource = NoGeometry =>
          /\ favpc \in {"access", "fatal"}
          /\ favpc = "access" =>
                /\ ENABLED FavAccessFails
                /\ ~ENABLED FavAccessOk
                /\ favLog = <<>>
                /\ favExit = -1
          /\ favpc = "fatal" =>
                /\ favLog = <<FatalLine>>
                /\ favExit = 1
          /\ DOMAIN assetFiles \cap FaviconOutputs = {}
          /\ SuccessLines(favLog) = {}
    /\ ogSource = NoGeometry =>
          /\ ogpc \in {"access", "fatal"}
          /\ ogpc = "access" =>
                /\ ENABLED OGAccessFails
                /\ ~ENABLED OGAccessOk
                /\ ogLog = <<>>
                /\ ogExit = -1
          /\ ogpc = "fatal" =>
                /\ ogLog = <<FatalLine>>
                /\ ogExit = 1
          /\ "og-image.jpg" \notin DOMAIN assetFiles
          /\ SuccessLines(ogLog) = {}

\* C16 witness: both sources are missing and both scripts have ended in
\* their catch with nothing written.
C16_Witness ==
    /\ favSource = NoGeometry
    /\ ogSource = NoGeometry
    /\ favpc = "fatal"
    /\ ogpc = "fatal"
    /\ favExit = 1
    /\ ogExit = 1
    /\ DOMAIN assetFiles = {}

\* The exponent of the largest of the units Bytes, KB, MB in which bytes is
\* at least 1.
LargestUnit(bytes) ==
    IF bytes >= 1048576 THEN 2 ELSE IF bytes >= 1024 THEN 1 ELSE 0

UnitLabel(u) == CASE u = 0 -> "Bytes" [] u = 1 -> "KB" [] u = 2 -> "MB"

\* C17: formatBytes returns 0 Bytes for 0 and otherwise the count in the
\* largest of the units Bytes, KB and MB (1024-based) in which it is at
\* least 1, with that unit's label; the label is one of the three for every
\* count, those of 1024^3 and above included.
C17_ByteFormatting ==
    fmtText # NoText =>
        /\ fmtBytes = 0 => fmtText = [hundredths |-> 0, unit |-> "Bytes"]
        /\ fmtText.unit \in {"Bytes", "KB", "MB"}
        /\ fmtText.unit = UnitLabel(LargestUnit(fmtBytes))
        /\ fmtBytes > 0 => fmtText.hundredths >= 100

\* Below 1024^3 bytes formatBytes does as C17 says.
FormatBelowGiB ==
    fmtText # NoText /\ fmtBytes < 1073741824 =>
        /\ fmtBytes = 0 => fmtText = [hundredths |-> 0, unit |-> "Bytes"]
        /\ fmtText.unit = UnitLabel(LargestUnit(fmtBytes))
        /\ fmtBytes > 0 =>
              fmtText.hundredths \in 100..102400

\* The directory exists: it is listed in the input directory, once, and is
\* a directory on the disk.
DirectoryExists(dir) ==
    /\ Cardinality({k \in 1..Len(dirEntries) : dirEntries[k] = dir}) = 1
    /\ ReadFile(disk, PathJoin("input", dir)) = [kind |-> "directory"]

\* C18: in the first run and in a second one, which finds the directories
\* in place, all three output directories exist whenever main is about to
\* read the input directory or has read it, so before any unit exists and
\* before any unit has read or written a file; creating them again leaves
\* the entries and the files of the first run as they were; and the step
\* that reads the input directory is only taken with createDirectories at
\* the last of the three.
C18_DirectoriesFirst ==
    /\ [](mainpc \in {"readdir", "await", "done"} =>
             \A dir \in {originals, thumbnails, optimized} :
                 DirectoryExists(dir))
    /\ [](units # <<>> \/ access # {} \/ imageFiles # <<>> =>
             /\ mainpc \in {"await", "done"}
             /\ \A dir \in {originals, thumbnails, optimized} :
                    DirectoryExists(dir))
    /\ [](SecondRun /\ mainpc \in {"mkdir", "readdir"} =>
             disk = firstRun.disk)
    /\ [](IsDistinct(dirEntries))
    /\ [][mainpc = "mkdir" /\ mainpc' = "readdir" =>
             /\ dirIdx = 3
             /\ dirEntries' \in {dirEntries, Append(dirEntries, optimized)}]_vars
    /\ [][mainpc' = "await" /\ mainpc # "await" =>
             /\ mainpc = "readdir"
             /\ dirIdx = 3
             /\ access = {}]_vars

\* C18 witness: a unit of the second run has written a file, after the
\* three directories, which the first run had left, were created again.
C18_Witness ==
    /\ run = 2
    /\ mainpc = "await"
    /\ \A dir \in {originals, thumbnails, optimized} :
          PathJoin("input", dir) \in DOMAIN firstRun.disk
    /\ \E a \in access : a.op = "write"
    /\ Len(dirEntries) = 5

\* The steps a unit takes from one await to the next.
StepOrder ==
    { <<"statInput", "copy">>, <<"copy", "thumbnail">>,
      <<"thumbnail", "optimized">>, <<"optimized", "statThumb">>,
      <<"statThumb", "statOptimized">>, <<"statOptimized", "fulfilled">>,
      <<"copy", "fulfilled">>, <<"thumbnail", "fulfilled">>,
      <<"optimized", "fulfilled">> }

Wrote(i, path) == Accessed(i, "write", path) \in access

\* C19: a unit goes from the backup copy to the thumbnail and from the
\* thumbnail to the full-size file, one step at a time, and writes each file
\* in the step of its own: the thumbnail is only written by a unit that has
\* written the copy, the full-size file only by one that has written the
\* thumbnail. A unit whose copy failed has ended with null and no thumbnail
\* or full-size file of its source exists; a unit whose thumbnail failed has
\* ended with null and no full-size file exists.
C19_StepOrder ==
    /\ [](\A i \in Units :
             LET f == imageFiles[i]
             IN  /\ Wrote(i, thumbPath(f)) => Wrote(i, originalPath(f))
                 /\ Wrote(i, optimizedPath(f)) => Wrote(i, thumbPath(f))
                 /\ units[i].pc \in {"statInput", "copy"} =>
                       ~Wrote(i, originalPath(f))
                 /\ units[i].pc = "thumbnail" => ~Wrote(i, thumbPath(f))
                 /\ units[i].pc = "optimized" => ~Wrote(i, optimizedPath(f))
                 /\ units[i].failedAt = "copy" =>
                       /\ units[i].pc = "fulfilled"
                       /\ units[i].result = Null
                       /\ originalPath(f) \notin DOMAIN disk
                       /\ thumbPath(f) \notin DOMAIN disk
                       /\ optimizedPath(f) \notin DOMAIN disk
                 /\ units[i].failedAt = "thumbnail" =>
                       /\ units[i].pc = "fulfilled"
                       /\ units[i].result = Null
                       /\ originalPath(f) \in DOMAIN disk
                       /\ thumbPath(f) \notin DOMAIN disk
                       /\ optimizedPath(f) \notin DOMAIN disk)
    /\ [][\A i \in Units :
             LET f == imageFiles[i]
             IN  /\ i \in 1..Len(units')
                 /\ units'[i].pc # units[i].pc =>
                       <<units[i].pc, units'[i].pc>> \in StepOrder
                 /\ units'[i].failedAt # units[i].failedAt =>
                       /\ units'[i].failedAt = units[i].pc
                       /\ units'[i].pc = "fulfilled"
                       /\ disk' = disk
                 /\ originalPath(f) \in DOMAIN disk' \ DOMAIN disk =>
                       units[i].pc = "copy" /\ units'[i].pc = "thumbnail"
                 /\ thumbPath(f) \in DOMAIN disk' \ DOMAIN disk =>
                       units[i].pc = "thumbnail" /\ units'[i].pc = "optimized"
                 /\ optimizedPath(f) \in DOMAIN disk' \ DOMAIN disk =>
                       units[i].pc = "optimized" /\ units'[i].pc = "statThumb"
         ]_vars

\* C19 witness: the first unit's copy failed and the second unit's
\* thumbnail failed; only the copy of the second source was written.
C19_Witness ==
    /\ mainpc = "done"
    /\ Len(units) = 2
    /\ units[1].failedAt = "copy"
    /\ units[2].failedAt = "thumbnail"
    /\ OutputFiles(disk) = {originalPath(imageFiles[2])}

\* The painting before and the painting after painting i of n, going round.
PreviousPainting(i, n) == IF i = 0 THEN n - 1 ELSE i - 1
NextPainting(i, n) == IF i = n - 1 THEN 0 ELSE i + 1

InsideLightbox == Range(Focusable)

\* C21: while the lightbox is open the focus is on one of its buttons; a Tab
\* that finds it open with the focus on the last button leaves the focus on
\* the first, a Shift+Tab that finds the focus on the first leaves it on the
\* last, and any other Tab leaves it on a button of the lightbox -- whatever
\* the number of listeners the calls of open() have registered.
C21_FocusTrap ==
    /\ isOpen => focus \in InsideLightbox /\ trapListeners >= 1
    /\ (lastEvent.type = "keydown" /\ lastEvent.key = "Tab" /\ before.isOpen) =>
          /\ (~lastEvent.shiftKey /\ before.focus = lastFocusable) =>
                focus = firstFocusable
          /\ (lastEvent.shiftKey /\ before.focus = firstFocusable) =>
                focus = lastFocusable
          /\ focus \in InsideLightbox

\* Tab on the last button after the third open: the focus is on the first.
C21_Witness ==
    /\ lastEvent.type = "keydown"
    /\ lastEvent.key = "Tab"
    /\ ~lastEvent.shiftKey
    /\ before.isOpen
    /\ before.focus = lastFocusable
    /\ trapListeners = 3
    /\ focus = firstFocusable
    /\ isOpen

RECURSIVE NextTimes(_, _)
\* next() called k times on s.
NextTimes(s, k) == IF k = 0 THEN s ELSE NextTimes(next(s), k - 1)

\* The lightbox was initialised once, with at least one painting.
InitialisedOnce == listeners = 1 /\ paintings >= 1

\* C22: in a lightbox initialised once with n >= 1 paintings, after any
\* sequence of open(i) with 0 <= i < n, next, prev and close, currentIndex is
\* in 0..n-1; next from n-1 gives 0 and prev from 0 gives n-1, next then prev
\* and prev then next give the index back, and so do n calls of next.
C22_CircularNavigation ==
    InitialisedOnce =>
        /\ currentIndex \in 0..(paintings - 1)
        /\ next(LbState).currentIndex =
              (IF currentIndex = paintings - 1 THEN 0 ELSE currentIndex + 1)
        /\ prev(LbState).currentIndex =
              (IF currentIndex = 0 THEN paintings - 1 ELSE currentIndex - 1)
        /\ prev(next(LbState)).currentIndex = currentIndex
        /\ next(prev(LbState)).currentIndex = currentIndex
        /\ NextTimes(LbState, paintings).currentIndex = currentIndex
        /\ (lastEvent.type = "click" /\ lastEvent.target = "next") =>
              currentIndex = NextPainting(before.currentIndex, paintings)
        /\ (lastEvent.type = "click" /\ lastEvent.target = "prev") =>
              currentIndex = PreviousPainting(before.currentIndex, paintings)

\* A click on next in the lightbox opened on the last of three paintings:
\* it shows the first.
C22_Witness ==
    /\ InitialisedOnce
    /\ paintings = 3
    /\ trapListeners >= 1
    /\ lastEvent.type = "click"
    /\ lastEvent.target = "next"
    /\ before.currentIndex = 2
    /\ currentIndex = 0

\* What a swipe from startX to endX is to do to the lightbox s.
SwipeOutcome(s, startX, endX) ==
    IF startX - endX > 50 THEN next(s)
    ELSE IF endX - startX > 50 THEN prev(s)
    ELSE s

\* C23: handleSwipe(startX, endX) does what one call of next does when
\* startX - endX > 50, what one call of prev does when endX - startX > 50,
\* and nothing when the two differ by 50 or less; so does a touch on a page
\* that registered the touch listeners once.
C23_SwipeThreshold ==
    /\ \A startX, endX \in ScreenXs :
          handleSwipe(LbState, startX, endX) =
              SwipeOutcome(LbState, startX, endX)
    /\ (lastEvent.type = "touchend" /\ listeners = 1) =>
          LbState = SwipeOutcome(before, lastEvent.startX, lastEvent.endX)

\* A touch that moved by exactly 50 on the open lightbox changed nothing,
\* where one more pixel would have shown the next of three paintings.
C23_Witness ==
    /\ lastEvent.type = "touchend"
    /\ lastEvent.startX = 50
    /\ lastEvent.endX = 0
    /\ listeners = 1
    /\ paintings = 3
    /\ isOpen
    /\ LbState = before
    /\ handleSwipe(LbState, 51, 0).currentIndex =
          NextPainting(currentIndex, paintings)

\* The lightbox is shown: class, aria-hidden and scroll lock say so.
Visible == classActive /\ ariaHidden = "false" /\ overflow = "hidden"

\* The lightbox is hidden: none of the three says it is shown.
Hidden == ~classActive /\ ariaHidden = "true" /\ overflow = ""

\* What of the page tells whether the lightbox is shown.
Visibility(s) == <<s.isOpen, s.classActive, s.ariaHidden, s.overflow>>

\* C24: once init has made the node, isOpen is true exactly when the node
\* has the class 'active', aria-hidden 'false' and the body overflow
\* 'hidden'; a close leaves currentIndex as it was, and a next or prev
\* leaves isOpen and the three as they were.
C24_OpenClosedConsistency ==
    /\ element => IF isOpen THEN Visible ELSE Hidden
    /\ (lastEvent.type = "click" /\ lastEvent.target \in {"close", "overlay"}) =>
          /\ ~isOpen
          /\ currentIndex = before.currentIndex
    /\ (lastEvent.type = "click" /\ lastEvent.target \in {"prev", "next"}) =>
          Visibility(LbState) = Visibility(before)
    /\ (lastEvent.type = "touchend") =>
          Visibility(LbState) = Visibility(before)

\* A click on the close button of the lightbox open on the third painting:
\* hidden, scrolling again, still on the third painting.
C24_Witness ==
    /\ lastEvent.type = "click"
    /\ lastEvent.target = "close"
    /\ before.isOpen
    /\ before.overflow = "hidden"
    /\ before.currentIndex = 2
    /\ ~isOpen
    /\ Hidden
    /\ currentIndex = 2

\* The event is a press of key.
Pressed(key) == lastEvent.type = "keydown" /\ lastEvent.key = key

\* The event is a click on the button target.
Clicked(target) == lastEvent.type = "click" /\ lastEvent.target = target

\* The event is a touch that moved by more than 50 from startX to endX.
Swiped(forward) ==
    /\ lastEvent.type = "touchend"
    /\ IF forward THEN lastEvent.startX - lastEvent.endX > 50
                  ELSE lastEvent.endX - lastEvent.startX > 50

\* The lightbox shows a painting of a list that is not empty.
OnAPainting == paintings >= 1 /\ before.currentIndex # NaN

\* One input event on the open lightbox steps once: the formula of C25 for
\* a given set of registration counts.
OneStep(counts) ==
    (/\ listeners \in counts
     /\ lastEvent.type \in {"keydown", "click", "touchend"}
     /\ before.isOpen) =>
        /\ ((Pressed("ArrowRight") \/ Clicked("next") \/ Swiped(TRUE))
               /\ OnAPainting) =>
              currentIndex = (before.currentIndex + 1) % paintings
        /\ ((Pressed("ArrowLeft") \/ Clicked("prev") \/ Swiped(FALSE))
               /\ OnAPainting) =>
              currentIndex = (before.currentIndex + paintings - 1) % paintings
        /\ (Pressed("Escape") \/ Clicked("close")
                \/ Clicked("overlay")) =>
              ~isOpen /\ Hidden

\* C25: after any number of calls of init, one ArrowRight press with the
\* lightbox open, one click on next or one swipe forward moves currentIndex
\* on by exactly 1 modulo n, the prev counterparts move it back by exactly 1,
\* and one Escape or close click closes the lightbox.
C25_OneStepPerEvent == OneStep(1..MaxInits)

\* The same after exactly one call of init.
OneStepAfterOneInit == OneStep({1})

\* The printed percentage is a finite number.
IsFinite(percentage) == percentage.kind = "number"

\* The run printed its report and returned: exit code 0 after the success
\* message.
EndedWell == mainpc = "done" /\ exitCode = 0 /\ report.success

\* C26: in every run that reaches the report, the runs that total 0 original
\* bytes included, the two aggregate savings percentages are finite numbers
\* and the run ends with exit code 0 and the success message.
C26_EmptyAggregate ==
    report.kind = "report" =>
        /\ IsFinite(report.thumbnailReduction)
        /\ IsFinite(report.optimizedReduction)
        /\ EndedWell

\* The part of C26 about how the run ends.
ReportedRunsEndWell == report.kind = "report" => EndedWell

\* The aggregates are finite whenever some original byte was counted.
FiniteAggregateAboveZero ==
    (report.kind = "report"
        /\ TotalOf(SuccessfulResults(Results(units)), "original") > 0) =>
        /\ IsFinite(report.thumbnailReduction)
        /\ IsFinite(report.optimizedReduction)

====
